---------------------------- MODULE Spec2Model ----------------------------
(***************************************************************************)
(* HandForge: the conversion orchestrator (core/orchestrator.py).          *)
(*                                                                         *)
(* Part I  : class Orchestrator.  Every Orchestrator method runs on the    *)
(*           GUI thread; Worker.sig_done is emitted on the worker thread   *)
(*           and reaches Orchestrator._on_worker_done through a queued Qt  *)
(*           connection, so completions are handled one at a time, in      *)
(*           emission order, between caller operations (mainQueue).        *)
(*           Specification: Spec.                                          *)
(* Part II : class Worker.  One Worker (id 1, already admitted) in full:   *)
(*           the thread of run(), the read_stderr thread it starts, the    *)
(*           encoder processes and their stderr pipe, the files touched,   *)
(*           and the caller's pause/resume/stop.                           *)
(*           Specification: SpecWorker (FairWorker with scheduling).       *)
(* Part III: two Workers active together, as far as their destination    *)
(*           paths go: the duplicate policy and the files both look at.    *)
(*           Specification: SpecPair.                                      *)
(* Part IV : util/ffmpeg.py, out_path: one call, with its strings taken    *)
(*           character by character.  Specification: SpecOutPath.          *)
(* Part V  : the argument vectors one Worker hands to run_ffmpeg: what     *)
(*           build_ffmpeg_cmd returns and what run() makes of it for the   *)
(*           second pass.  Specification: SpecCmd.                         *)
(***************************************************************************)
EXTENDS Integers, Sequences, FiniteSets, TLC

\* ------------------------------------------------------------------ bounds
MaxJobs     == 3      \* jobs submitted over one behaviour
MaxBatch    == 3      \* jobs handed to one enqueue call
MaxParallel == 2      \* largest "parallel" setting tried (the dialog allows 1..16)
MaxLines    == 2      \* lines one encoder process writes to stderr
MaxBeats    == 1      \* five-second heartbeat periods that elapse in one run
MaxCopies   == 1      \* "name (n).ext" candidates that can exist beforehand

\* --------------------------------------------------------------- constants
HeartbeatPct  == 1      \* the heartbeat's 0.1 percent, in tenths of a percent
ProgressCap   == 990    \* min(99.0, ...), in tenths of a percent
FullProgress  == 1000   \* the final 100.0, in tenths of a percent
MinOutputSize == 1024   \* output_size < 1024

Wids   == 1..MaxJobs          \* worker ids that can be assigned
JobIds == 1..MaxJobs          \* a job is named by its submission rank

VARIABLES
    max_parallel,   \* Orchestrator.max_parallel
    workers,        \* Orchestrator.workers: the keys of the active map
    job_queue,      \* Orchestrator.job_queue: pending jobs, head first
    next_wid,       \* Orchestrator.next_wid
    wjob,           \* Worker.job of the Worker built with each id (0: none built)
    w_paused,       \* Worker._paused, per id
    w_stopped,      \* Worker._stopped, per id
    wthread,        \* the Worker's QThread: "none" | "running" | "exiting" | "finished"
    mainQueue,      \* sig_done emissions queued for the GUI thread, oldest first
    emitted,        \* signals the Orchestrator has emitted, oldest first
    submitted,      \* number of jobs handed to enqueue so far
    settings,       \* Orchestrator.settings: the dictionary set_settings was given
    jobs,           \* the Job objects handed to enqueue, by submission rank
    w_result,       \* per id: the success flag of the sig_done not yet handled
    \* ---- Part II: the Worker with id 1
    pc,             \* where the thread of Worker.run is
    rpc,            \* where the read_stderr thread is ("none": not started)
    job,            \* the Job fields run() branches on
    on_exists,      \* settings["on_exists"]
    fs,             \* the files: the source, the candidates for the output, the pass logs
    proc,           \* the first encoder process (proc)
    proc2,          \* the second-pass encoder process (proc2)
    pipe,           \* proc.stderr: lines written and not yet read
    written,        \* every line proc has written to stderr
    loc,            \* locals of run(): dst, return_code, elapsed, and beats
    duration_seconds, \* local of read_stderr (0: None)
    events,         \* what the Worker has emitted, oldest first
    stop_at,        \* where run() was blocked, paused, when stop() was called
    \* ---- Part III: the Workers with ids 1 and 2, their destinations only
    pjob,           \* per Worker: the base name of out_path(dst_dir, src, format)
    ppc,            \* per Worker: where its run() is
    pdst,           \* per Worker: dst, the candidate it resolved (-1: none yet)
    disk,           \* per base name: the candidates for the output, as in fs.out
    \* ---- Part IV: one call of out_path
    call,           \* the arguments: dst_dir, src, fmt (strings as sequences of characters)
    ret,            \* how the call ended, and the path it returned
    \* ---- Part V: the argument vectors of one Worker
    cjob,           \* per Worker: the Job fields build_ffmpeg_cmd branches on, and the platform
    cpc,            \* per Worker: where run() is: "start" | "pass1" | "exited1" | "pass2" | "end"
    spawned         \* per Worker: its run_ffmpeg calls so far: the vector, and the exit code

orchVars == <<max_parallel, workers, job_queue, next_wid, wjob, w_paused,
              w_stopped, wthread, mainQueue, emitted, submitted, settings,
              jobs, w_result>>

wkVars == <<pc, rpc, job, on_exists, fs, proc, proc2, pipe, written, loc,
            duration_seconds, events, stop_at>>

pairVars == <<pjob, ppc, pdst, disk>>

fnVars == <<call, ret, cjob, cpc, spawned>>

vars == <<orchVars, wkVars, pairVars, fnVars>>

Min(a, b) == IF a < b THEN a ELSE b

\* Worker.__init__: both flags start cleared.
WorkerInit == [paused |-> FALSE, stopped |-> FALSE]

\* ------------------------------------------------------- Orchestrator state
\* The fields _process_queue reads and writes, as one record.
OrchState == [max_parallel |-> max_parallel, workers |-> workers,
              job_queue |-> job_queue, next_wid |-> next_wid, wjob |-> wjob,
              w_paused |-> w_paused, w_stopped |-> w_stopped,
              wthread |-> wthread, emitted |-> emitted,
              settings |-> settings, jobs |-> jobs, w_result |-> w_result]

\* dict.get(key, default), a dictionary being a function on its keys.
Get(dict, key, default) == IF key \in DOMAIN dict THEN dict[key] ELSE default

\* A slot test with <= in place of <.
CanAdmitOffByOne(st) ==
    /\ Cardinality(st.workers) <= st.max_parallel
    /\ st.job_queue # <<>>

\* The loop condition of _process_queue.
CanAdmit(st) ==
    /\ Cardinality(st.workers) < st.max_parallel
    /\ st.job_queue # <<>>

\* Taking the newest pending job instead of the oldest.
PopJobLast(q) == [job |-> q[Len(q)], rest |-> SubSeq(q, 1, Len(q) - 1)]

\* job_queue.pop(0)
PopJob(q) == [job |-> Head(q), rest |-> Tail(q)]

\* An admission that keeps the caller's thread count when the format has no
\* entry.
AdmitOneKeepsThreads(st) ==
    LET p   == PopJob(st.job_queue)
        wid == st.next_wid
        codec_threads == st.settings.codec_threads
    IN  [st EXCEPT !.job_queue = p.rest,
                   !.next_wid  = wid + 1,
                   !.jobs      = [@ EXCEPT ![p.job].threads =
                                     Get(codec_threads, st.jobs[p.job].format,
                                         st.jobs[p.job].threads)],
                   !.wjob      = [@ EXCEPT ![wid] = p.job],
                   !.w_paused  = [@ EXCEPT ![wid] = WorkerInit.paused],
                   !.w_stopped = [@ EXCEPT ![wid] = WorkerInit.stopped],
                   !.workers   = @ \cup {wid},
                   !.emitted   = Append(@, <<"started", wid, p.job>>),
                   !.wthread   = [@ EXCEPT ![wid] = "running"]]

\* An admission that takes the lowest id no active Worker has.
AdmitOneReusesId(st) ==
    LET p   == PopJob(st.job_queue)
        wid == CHOOSE w \in Wids : w \notin st.workers /\ \A v \in Wids \ st.workers : w <= v
        codec_threads == st.settings.codec_threads
    IN  [st EXCEPT !.job_queue = p.rest,
                   !.next_wid  = wid + 1,
                   !.jobs      = [@ EXCEPT ![p.job].threads =
                                     Get(codec_threads, st.jobs[p.job].format, 1)],
                   !.wjob      = [@ EXCEPT ![wid] = p.job],
                   !.w_paused  = [@ EXCEPT ![wid] = WorkerInit.paused],
                   !.w_stopped = [@ EXCEPT ![wid] = WorkerInit.stopped],
                   !.workers   = @ \cup {wid},
                   !.emitted   = Append(@, <<"started", wid, p.job>>),
                   !.wthread   = [@ EXCEPT ![wid] = "running"]]

\* One iteration of the loop of _process_queue: pop the head, take the next
\* id, set job.threads from settings["codec_threads"], build the Worker, put
\* it in the active map, emit sig_worker_started, start the thread.
AdmitOne(st) ==
    LET p   == PopJob(st.job_queue)
        wid == st.next_wid
        codec_threads == st.settings.codec_threads
    IN  [st EXCEPT !.job_queue = p.rest,
                   !.next_wid  = wid + 1,
                   !.jobs      = [@ EXCEPT ![p.job].threads =
                                     Get(codec_threads, st.jobs[p.job].format, 1)],
                   !.wjob      = [@ EXCEPT ![wid] = p.job],
                   !.w_paused  = [@ EXCEPT ![wid] = WorkerInit.paused],
                   !.w_stopped = [@ EXCEPT ![wid] = WorkerInit.stopped],
                   !.workers   = @ \cup {wid},
                   !.emitted   = Append(@, <<"started", wid, p.job>>),
                   !.wthread   = [@ EXCEPT ![wid] = "running"]]

\* A _process_queue that admits one job at most.
process_queue_once(st) == IF CanAdmit(st) THEN AdmitOne(st) ELSE st

\* Orchestrator._process_queue: admit while there is room and a pending job.
RECURSIVE process_queue(_)
process_queue(st) == IF CanAdmit(st) THEN process_queue(AdmitOne(st)) ELSE st

\* Writes a record of Orchestrator fields back to the variables.
Install(st) ==
    /\ max_parallel' = st.max_parallel
    /\ workers'      = st.workers
    /\ job_queue'    = st.job_queue
    /\ next_wid'     = st.next_wid
    /\ wjob'         = st.wjob
    /\ w_paused'     = st.w_paused
    /\ w_stopped'    = st.w_stopped
    /\ wthread'      = st.wthread
    /\ emitted'      = st.emitted
    /\ settings'     = st.settings
    /\ jobs'         = st.jobs
    /\ w_result'     = st.w_result

\* ----------------------------------------------------------- Orchestrator
\* No pair of Workers is looked into in Parts I and II.
NoPair ==
    /\ pjob = <<>> /\ ppc = <<>> /\ pdst = <<>> /\ disk = <<>>

\* No call of out_path and no argument vector is looked into in Parts I
\* to III.
NoCall ==
    /\ call = <<>> /\ ret = <<>>
    /\ cjob = <<>> /\ cpc = <<>> /\ spawned = <<>>

\* No Worker is looked into in Part I.
NoWorker ==
    /\ pc = "none" /\ rpc = "none"
    /\ job = [two_pass |-> FALSE]
    /\ on_exists = "overwrite"
    /\ fs = [src |-> TRUE, dir |-> TRUE,
             out |-> [n \in 0..MaxCopies |-> "absent"], logs |-> {}]
    /\ proc = [state |-> "none", rc |-> 0, signalled |-> FALSE]
    /\ proc2 = [state |-> "none", rc |-> 0, signalled |-> FALSE]
    /\ pipe = <<>> /\ written = <<>>
    /\ loc = [dst |-> 0, return_code |-> -1, elapsed |-> FALSE, beats |-> 0]
    /\ duration_seconds = 0
    /\ events = <<>>
    /\ stop_at = "none"

\* settings["codec_threads"]: a dictionary from formats to thread counts.
NoTable == [f \in {} |-> 1]

\* A settings dictionary with nothing but the default entries, and a Job with
\* its fields as the dataclass defaults leave them.
PlainSettings(p) ==
    [parallel |-> p, codec_threads |-> NoTable, auto_retry_enabled |-> TRUE]

PlainJob == [src |-> "a.wav", format |-> "mp3", threads |-> 1]

\* Orchestrator.__init__, then MainWindow's set_settings call.
InitOrch ==
    /\ settings \in {PlainSettings(p) : p \in 1..MaxParallel}
    /\ max_parallel = settings.parallel
    /\ jobs = <<>>
    /\ w_result = [w \in Wids |-> "none"]
    /\ workers   = {}
    /\ job_queue = <<>>
    /\ next_wid  = 1
    /\ wjob      = [w \in Wids |-> 0]
    /\ w_paused  = [w \in Wids |-> FALSE]
    /\ w_stopped = [w \in Wids |-> FALSE]
    /\ wthread   = [w \in Wids |-> "none"]
    /\ mainQueue = <<>>
    /\ emitted   = <<>>
    /\ submitted = 0
    /\ NoWorker
    /\ NoPair
    /\ NoCall

\* Orchestrator.set_settings(s): the dictionary is kept and the bound
\* becomes settings["parallel"].
set_settings(s) ==
    /\ settings' = s
    /\ max_parallel' = s.parallel
    /\ UNCHANGED <<workers, job_queue, next_wid, wjob, w_paused, w_stopped,
                   wthread, mainQueue, emitted, submitted, jobs, w_result>>
    /\ UNCHANGED <<wkVars, pairVars, fnVars>>

\* Orchestrator.enqueue(js): extend the pending list with the Jobs of js (a
\* Job is named by its submission rank), then _process_queue.
enqueue(js) ==
    /\ submitted + Len(js) <= MaxJobs
    /\ submitted' = submitted + Len(js)
    /\ Install(process_queue(
           [OrchState EXCEPT !.jobs = @ \o js,
                             !.job_queue =
                                 @ \o [i \in 1..Len(js) |-> submitted + i]]))
    /\ UNCHANGED mainQueue
    /\ UNCHANGED <<wkVars, pairVars, fnVars>>

\* The Worker's thread passes its last pause wait point; the wait at
\* "while self._paused and not self._stopped" holds it while it is paused.
WorkerPassPause(w) ==
    /\ wthread[w] = "running"
    /\ ~(w_paused[w] /\ ~w_stopped[w])
    /\ wthread' = [wthread EXCEPT ![w] = "exiting"]
    /\ UNCHANGED <<max_parallel, workers, job_queue, next_wid, wjob, w_paused,
                   w_stopped, mainQueue, emitted, submitted, settings, jobs,
                   w_result>>
    /\ UNCHANGED <<wkVars, pairVars, fnVars>>

\* The success flag of a sig_done, as w_result keeps it.
Result(success) == IF success THEN "ok" ELSE "failed"

\* Worker.run ends: it emits sig_done once, with its success flag, which Qt
\* queues for the GUI thread, and the thread returns.
WorkerEmitDone(w, success) ==
    /\ wthread[w] = "exiting"
    /\ wthread' = [wthread EXCEPT ![w] = "finished"]
    /\ mainQueue' = Append(mainQueue, w)
    /\ w_result' = [w_result EXCEPT ![w] = Result(success)]
    /\ UNCHANGED <<max_parallel, workers, job_queue, next_wid, wjob, w_paused,
                   w_stopped, emitted, submitted, settings, jobs>>
    /\ UNCHANGED <<wkVars, pairVars, fnVars>>

\* The thread of Worker w emits sig_progress or sig_log (kind), which is
\* connected to the Orchestrator's sig_worker_progress / sig_worker_log
\* (lines 550-551) and so relayed with the Worker's id; one such event per
\* Worker is followed here.
WorkerReport(w, kind) ==
    /\ wthread[w] \in {"running", "exiting"}
    /\ ~\E i \in DOMAIN emitted :
          emitted[i][2] = w /\ emitted[i][1] \in {"progress", "log"}
    /\ emitted' = Append(emitted, <<kind, w, wjob[w]>>)
    /\ UNCHANGED <<max_parallel, workers, job_queue, next_wid, wjob, w_paused,
                   w_stopped, wthread, mainQueue, submitted, settings, jobs,
                   w_result>>
    /\ UNCHANGED <<wkVars, pairVars, fnVars>>

\* Admitting first and re-emitting the completion afterwards.
AdmitThenRelay(st, wid) ==
    LET st1 == process_queue([st EXCEPT
                   !.workers   = @ \ {wid},
                   !.w_paused  = [@ EXCEPT ![wid] = WorkerInit.paused],
                   !.w_stopped = [@ EXCEPT ![wid] = WorkerInit.stopped],
                   !.w_result  = [@ EXCEPT ![wid] = "none"]])
    IN  [st1 EXCEPT !.emitted = Append(@, <<"done", wid, st.wjob[wid]>>)]

\* A handler that puts the job of a failed Worker back on the pending list
\* when auto-retry is on.
HandleDoneRetry(st, wid) ==
    process_queue([st EXCEPT
        !.workers   = @ \ {wid},
        !.w_paused  = [@ EXCEPT ![wid] = WorkerInit.paused],
        !.w_stopped = [@ EXCEPT ![wid] = WorkerInit.stopped],
        !.w_result  = [@ EXCEPT ![wid] = "none"],
        !.emitted   = Append(@, <<"done", wid, st.wjob[wid]>>),
        !.job_queue = IF st.w_result[wid] = "failed" /\ st.settings.auto_retry_enabled
                      THEN Append(@, st.wjob[wid]) ELSE @])

\* A handler that does not look at the pending list.
HandleDoneNoAdmit(st, wid) ==
    [st EXCEPT
        !.workers   = @ \ {wid},
        !.w_paused  = [@ EXCEPT ![wid] = WorkerInit.paused],
        !.w_stopped = [@ EXCEPT ![wid] = WorkerInit.stopped],
        !.w_result  = [@ EXCEPT ![wid] = "none"],
        !.emitted   = Append(@, <<"done", wid, st.wjob[wid]>>)]

\* The body of Orchestrator._on_worker_done(wid, success, ...): drop the
\* Worker from the active map when it is there (its object is released with
\* it, so its flags are no longer state), re-emit the completion as
\* sig_worker_done (the success flag is handed on, not read), then
\* _process_queue.
HandleDone(st, wid) ==
    process_queue([st EXCEPT
        !.workers   = @ \ {wid},
        !.w_paused  = [@ EXCEPT ![wid] = WorkerInit.paused],
        !.w_stopped = [@ EXCEPT ![wid] = WorkerInit.stopped],
        !.w_result  = [@ EXCEPT ![wid] = "none"],
        !.emitted   = Append(@, <<"done", wid, st.wjob[wid]>>)])

\* Orchestrator._on_worker_done is run by the GUI thread for the oldest
\* queued sig_done.
on_worker_done ==
    /\ mainQueue # <<>>
    /\ Install(HandleDone(OrchState, Head(mainQueue)))
    /\ mainQueue' = Tail(mainQueue)
    /\ UNCHANGED submitted
    /\ UNCHANGED <<wkVars, pairVars, fnVars>>

\* Worker.pause / Worker.resume / Worker.stop on the flags of one Worker.
\* A pause that also sets the stop flag.
WorkerPauseStops(f) == [paused |-> TRUE, stopped |-> TRUE]
WorkerPause(f)  == [f EXCEPT !.paused = TRUE]
\* A resume that also clears the stop flag.
WorkerResumeClearsStop(f) == [paused |-> FALSE, stopped |-> FALSE]
WorkerResume(f) == [f EXCEPT !.paused = FALSE]
WorkerStop(f)   == [paused |-> FALSE, stopped |-> TRUE]

Flags(w) == [paused |-> w_paused[w], stopped |-> w_stopped[w]]

\* The Worker method named op, on the flags f.
Call(op, f) ==
    CASE op = "pause"  -> WorkerPause(f)
      [] op = "resume" -> WorkerResume(f)
      [] op = "stop"   -> WorkerStop(f)

\* Calls the Worker method named op on every Worker of ws.
Forward(ws, op) ==
    /\ w_paused'  = [w \in Wids |->
                        IF w \in ws THEN Call(op, Flags(w)).paused ELSE w_paused[w]]
    /\ w_stopped' = [w \in Wids |->
                        IF w \in ws THEN Call(op, Flags(w)).stopped ELSE w_stopped[w]]
    /\ UNCHANGED <<max_parallel, workers, job_queue, next_wid, wjob, wthread,
                   mainQueue, emitted, submitted, settings, jobs, w_result>>

\* A stop_worker that does not look the id up in the active map.
stop_worker_any(wid) == Forward({wid}, "stop") /\ UNCHANGED <<wkVars, pairVars, fnVars>>

\* Orchestrator.pause_worker / resume_worker / stop_worker: forwarded when the
\* id is in the active map, nothing otherwise.
pause_worker(wid)  == Forward({wid} \cap workers, "pause")  /\ UNCHANGED <<wkVars, pairVars, fnVars>>
resume_worker(wid) == Forward({wid} \cap workers, "resume") /\ UNCHANGED <<wkVars, pairVars, fnVars>>
stop_worker(wid)   == Forward({wid} \cap workers, "stop")   /\ UNCHANGED <<wkVars, pairVars, fnVars>>

\* Orchestrator.pause_all / resume_all.
pause_all  == Forward(workers, "pause")  /\ UNCHANGED <<wkVars, pairVars, fnVars>>
resume_all == Forward(workers, "resume") /\ UNCHANGED <<wkVars, pairVars, fnVars>>

\* The Workers whose threads stop_all has to wait for.
Unfinished == {w \in workers : wthread[w] # "finished"}

\* The orders in which the threads of the Workers in ws can end.
Orders(ws) ==
    {s \in [1..Cardinality(ws) -> ws] :
        \A i, j \in 1..Cardinality(ws) : i # j => s[i] # s[j]}

\* A stop_all that leaves the pending list as it is.
stop_all_keeps_pending(res) ==
    /\ \E ord \in Orders(Unfinished) : mainQueue' = mainQueue \o ord
    /\ w_result'  = [w \in Wids |-> IF w \in Unfinished
                                    THEN Result(res[w]) ELSE w_result[w]]
    /\ wthread'   = [w \in Wids |-> IF w \in workers THEN "finished" ELSE wthread[w]]
    /\ w_paused'  = [w \in Wids |-> WorkerInit.paused]
    /\ w_stopped' = [w \in Wids |-> WorkerInit.stopped]
    /\ workers'   = {}
    /\ UNCHANGED <<max_parallel, job_queue, next_wid, wjob, emitted, submitted,
                   settings, jobs>>
    /\ UNCHANGED <<wkVars, pairVars, fnVars>>

\* A stop_all that starts the ids over.
stop_all_resets_ids(res) ==
    /\ \E ord \in Orders(Unfinished) : mainQueue' = mainQueue \o ord
    /\ w_result'  = [w \in Wids |-> IF w \in Unfinished
                                    THEN Result(res[w]) ELSE w_result[w]]
    /\ wthread'   = [w \in Wids |-> IF w \in workers THEN "finished" ELSE wthread[w]]
    /\ w_paused'  = [w \in Wids |-> WorkerInit.paused]
    /\ w_stopped' = [w \in Wids |-> WorkerInit.stopped]
    /\ workers'   = {}
    /\ job_queue' = <<>>
    /\ next_wid'  = 1
    /\ UNCHANGED <<max_parallel, wjob, emitted, submitted, settings, jobs>>
    /\ UNCHANGED <<wkVars, pairVars, fnVars>>

\* Orchestrator.stop_all: stop every active Worker, wait for every thread to
\* end (each thread still running emits its sig_done on the way, with the
\* success flag its run came to: res), then clear the active map, which releases
\* the Worker objects, and the pending list.
stop_all(res) ==
    /\ w_result'  = [w \in Wids |-> IF w \in Unfinished
                                    THEN Result(res[w]) ELSE w_result[w]]
    /\ wthread'   = [w \in Wids |-> IF w \in workers THEN "finished" ELSE wthread[w]]
    /\ \E ord \in Orders(Unfinished) : mainQueue' = mainQueue \o ord
    /\ w_paused'  = [w \in Wids |-> WorkerInit.paused]
    /\ w_stopped' = [w \in Wids |-> WorkerInit.stopped]
    /\ workers'   = {}
    /\ job_queue' = <<>>
    /\ UNCHANGED <<max_parallel, next_wid, wjob, emitted, submitted, settings,
                   jobs>>
    /\ UNCHANGED <<wkVars, pairVars, fnVars>>

NextOrch ==
    \/ \E p \in 1..MaxParallel : set_settings([settings EXCEPT !.parallel = p])
    \/ \E n \in 1..MaxBatch : enqueue([i \in 1..n |-> PlainJob])
    \/ \E w \in Wids : WorkerPassPause(w)
    \/ \E w \in Wids, success \in BOOLEAN : WorkerEmitDone(w, success)
    \/ on_worker_done
    \/ \E w \in Wids : pause_worker(w)
    \/ \E w \in Wids : resume_worker(w)
    \/ \E w \in Wids : stop_worker(w)
    \/ pause_all
    \/ resume_all
    \/ \E res \in [Unfinished -> BOOLEAN] : stop_all(res)

Spec == InitOrch /\ [][NextOrch]_vars

\* The same Orchestrator with callers that never stop anything: stop_all is
\* not called, and no single Worker is stopped either.
NextNoStopAll ==
    \/ \E p \in 1..MaxParallel : set_settings([settings EXCEPT !.parallel = p])
    \/ \E n \in 1..MaxBatch : enqueue([i \in 1..n |-> PlainJob])
    \/ \E w \in Wids : WorkerPassPause(w)
    \/ \E w \in Wids, success \in BOOLEAN : WorkerEmitDone(w, success)
    \/ on_worker_done
    \/ \E w \in Wids : pause_worker(w)
    \/ \E w \in Wids : resume_worker(w)
    \/ pause_all
    \/ resume_all

SpecNoStopAll == InitOrch /\ [][NextNoStopAll]_vars

\* The GUI thread's event loop runs the handler of a queued sig_done; when
\* again and again some Worker's thread is not held in a pause wait, one
\* gets past it; and a thread past its waits returns, its encoder process
\* having exited.
FairOrch ==
    /\ SpecNoStopAll
    /\ WF_vars(on_worker_done)
    /\ SF_vars(\E w \in Wids : WorkerPassPause(w))
    /\ WF_vars(\E w \in Wids, success \in BOOLEAN : WorkerEmitDone(w, success))

\* The Orchestrator with the progress and log events of its Workers relayed,
\* callers that enqueue and call stop_all, and Workers that all succeed (the
\* success flag is handed on, not read).
NextEvents ==
    \/ \E n \in 1..MaxBatch : enqueue([i \in 1..n |-> PlainJob])
    \/ \E w \in Wids, kind \in {"progress", "log"} : WorkerReport(w, kind)
    \/ \E w \in Wids : WorkerPassPause(w)
    \/ \E w \in Wids : WorkerEmitDone(w, TRUE)
    \/ on_worker_done
    \/ stop_all([w \in Unfinished |-> TRUE])

SpecEvents == InitOrch /\ [][NextEvents]_vars

\* ------------------------------------------------- the Jobs and the settings
\* The same Orchestrator, with callers that vary the settings dictionary and
\* the Jobs, and leave the Workers' flags alone.

\* Everything but the dictionary, as Orchestrator.__init__ leaves it.
InitRest ==
    /\ max_parallel = settings.parallel
    /\ workers   = {}
    /\ job_queue = <<>>
    /\ next_wid  = 1
    /\ wjob      = [w \in Wids |-> 0]
    /\ w_paused  = [w \in Wids |-> FALSE]
    /\ w_stopped = [w \in Wids |-> FALSE]
    /\ wthread   = [w \in Wids |-> "none"]
    /\ mainQueue = <<>>
    /\ emitted   = <<>>
    /\ submitted = 0
    /\ jobs      = <<>>
    /\ w_result  = [w \in Wids |-> "none"]
    /\ NoWorker
    /\ NoPair
    /\ NoCall

\* The dictionaries with auto-retry on and off (preferences.py:401).
RetrySettings ==
    [parallel : 1..MaxParallel, codec_threads : {NoTable},
     auto_retry_enabled : BOOLEAN]

InitRetry == settings \in RetrySettings /\ InitRest

NextRetry ==
    \/ \E s \in RetrySettings : set_settings(s)
    \/ \E n \in 1..MaxBatch : enqueue([i \in 1..n |-> PlainJob])
    \/ \E w \in Wids : WorkerPassPause(w)
    \/ \E w \in Wids, success \in BOOLEAN : WorkerEmitDone(w, success)
    \/ on_worker_done
    \/ \E res \in [Unfinished -> BOOLEAN] : stop_all(res)

SpecRetry == InitRetry /\ [][NextRetry]_vars

\* The dictionaries with and without a thread count for "mp3"
\* (preferences.py:383-387).
ThreadSettings ==
    [parallel : 1..MaxParallel,
     codec_threads : {NoTable, [f \in {"mp3"} |-> 4]},
     auto_retry_enabled : {TRUE}]

\* The Jobs handed to enqueue: a format the table can hold and one it never
\* holds, each with a thread count of the caller's.
JobsTried == [src : {"a.wav"}, format : {"mp3", "mkv"}, threads : {8}]

InitThreads == settings \in ThreadSettings /\ InitRest

\* MainWindow.start_conversion gives every Job of a batch the preset's format
\* (main_window.py:768-771) before it calls enqueue (line 827).
NextThreads ==
    \/ \E s \in ThreadSettings : set_settings(s)
    \/ \E n \in 1..MaxBatch, j \in JobsTried : enqueue([i \in 1..n |-> j])
    \/ \E w \in Wids : WorkerPassPause(w)
    \/ \E w \in Wids, success \in BOOLEAN : WorkerEmitDone(w, success)
    \/ on_worker_done

SpecThreads == InitThreads /\ [][NextThreads]_vars

\* ================================================================ Part II
\* ------------------------------------------------------------------ events
Log(text)            == <<"log", text>>
Progress(tenths)     == <<"progress", tenths>>
Done(ok, msg, path)  == <<"done", ok, msg, path>>

IsLog(e)      == e[1] = "log"
IsProgress(e) == e[1] = "progress"
IsDoneEv(e)   == e[1] = "done"

\* ------------------------------------------------------------------- files
\* A file is "absent", "small" (512 bytes) or "ok" (2048 bytes).
Exists(f) == f # "absent"
SizeOf(f) == IF f = "small" THEN 512 ELSE 2048

\* The output path candidates: 0 is out_path(...), n >= 1 is "base (n)ext".
Path(n) == <<"dst", n>>
NoPath  == <<"", 0>>

\* A rename that takes "base (1).ext" without looking.
RenameLoopOnce(out, cur, counter) ==
    IF cur \in DOMAIN out /\ Exists(out[cur]) THEN counter ELSE cur

\* The rename loop of run(): counter = 1; while os.path.exists(dst):
\* dst = f"{base} ({counter}){ext}"; counter += 1.  Entered with the file at
\* `cur` existing or not; returns the first candidate that does not exist.
RECURSIVE RenameLoop(_, _, _)
RenameLoop(out, cur, counter) ==
    IF cur \in DOMAIN out /\ Exists(out[cur])
    THEN RenameLoop(out, counter, counter + 1)
    ELSE cur

\* A duplicate policy without "skip": the file is overwritten.
ResolveDstNoSkip(out, policy) ==
    IF Exists(out[0]) /\ policy = "rename"
    THEN [skip |-> FALSE, dst |-> RenameLoop(out, 0, 1)]
    ELSE [skip |-> FALSE, dst |-> 0]

\* Lines 79-90 of run(): the destination the encoder is given, or "skip".
ResolveDst(out, policy) ==
    IF Exists(out[0])
    THEN IF policy = "skip" THEN [skip |-> TRUE, dst |-> 0]
         ELSE IF policy = "rename"
              THEN [skip |-> FALSE, dst |-> RenameLoop(out, 0, 1)]
              ELSE [skip |-> FALSE, dst |-> 0]
    ELSE [skip |-> FALSE, dst |-> 0]

\* ------------------------------------------------------- the stderr lines
\* What the encoder writes: "Duration: ..." with its seconds, a status line
\* with "time=..." and its seconds, or "Error while decoding".
DurLine(sec)  == [k |-> "dur",  v |-> sec]
TimeLine(sec) == [k |-> "time", v |-> sec]
ErrLine       == [k |-> "text", v |-> 0]

Text(l) ==
    CASE l.k = "dur"  -> "Duration"
      [] l.k = "time" -> "status"
      [] OTHER        -> "Error while decoding"

\* "error" in l.lower() or "failed" in l.lower()
HasError(l) == l = ErrLine

TimeLines(seq) == {i \in 1..Len(seq) : seq[i].k = "time"}

\* The shape of the encoder's stderr: the input's "Duration" (ten seconds)
\* comes first if it comes, status lines follow at five-second steps of
\* "time=" (the later ones past the duration), and an error line ends the
\* output.
NextLines(seq) ==
    IF \E i \in 1..Len(seq) : HasError(seq[i]) THEN {}
    ELSE {ErrLine, TimeLine(5 * (Cardinality(TimeLines(seq)) + 1))}
         \cup (IF seq = <<>> THEN {DurLine(10)} ELSE {})

\* proc.stderr.read(): everything in the pipe, leaving it empty.
ReadAll(p) == [data |-> p, rest |-> <<>>]

\* The last line of `data` with "error"/"failed" in it.
LastError(data) ==
    LET es == {i \in 1..Len(data) : HasError(data[i])}
    IN  data[CHOOSE i \in es : \A j \in es : j <= i]

\* Lines 174-186: the message of the immediate-exit path.
ClassifyImmediate(data) ==
    IF data = <<>> THEN "FFmpeg process exited immediately"
    ELSE IF \E i \in 1..Len(data) : HasError(data[i])
         THEN Text(LastError(data))
         ELSE Text(data[Len(data)])

\* Lines 493-502: the message of the failure path, from what
\* proc.stderr.read() returned there.
ClassifyFailure(data) ==
    IF data = <<>> THEN "Conversion failed with exit code"
    ELSE IF \E i \in 1..Len(data) : HasError(data[i])
         THEN Text(LastError(data))
         ELSE Text(data[Len(data)])

\* lines[-5:]
LastFive(data) == SubSeq(data, IF Len(data) > 5 THEN Len(data) - 4 ELSE 1, Len(data))

\* One sig_log per line, in order.
RECURSIVE LogLines(_)
LogLines(data) ==
    IF data = <<>> THEN <<>> ELSE <<Log(Text(Head(data)))>> \o LogLines(Tail(data))

\* Lines 254-259: the percentage of a "time=" line, in tenths of a percent.
ProgressOf(current_seconds, dur) ==
    Min(ProgressCap, (current_seconds * FullProgress) \div dur)

\* --------------------------------------------------- names bound in run()
\* speed_str is assigned only inside read_stderr (line 266), so in run() the
\* name is never bound.
SpeedStrBoundInRun == FALSE

\* Evaluating the arguments of sig_progress.emit(self.wid, 100.0, elapsed,
\* 0.0, speed_str, ...) at lines 429 and 465: "ok", or the name that is not
\* bound (elapsed is read first).
FinalProgressArgs(elapsed_bound) ==
    IF ~elapsed_bound THEN "elapsed"
    ELSE IF ~SpeedStrBoundInRun THEN "speed_str"
    ELSE "ok"

\* An exception handler that emits nothing.
OnExceptionSilent(what) == <<>>

\* Lines 507-508: except Exception as e: sig_done.emit(wid, False, "Error: ...", "").
OnException(what) == <<Done(FALSE, "Error: " \o what, NoPath)>>

\* -------------------------------------------------------------------- Init
\* The Worker with id 1 has just been admitted for job 1; its thread has
\* not run yet.
InitWorker ==
    /\ max_parallel = 1
    /\ workers   = {1}
    /\ job_queue = <<>>
    /\ next_wid  = 2
    /\ wjob      = [w \in Wids |-> IF w = 1 THEN 1 ELSE 0]
    /\ w_paused  = [w \in Wids |-> FALSE]
    /\ w_stopped = [w \in Wids |-> FALSE]
    /\ wthread   = [w \in Wids |-> IF w = 1 THEN "running" ELSE "none"]
    /\ mainQueue = <<>>
    /\ emitted   = <<<<"started", 1, 1>>>>
    /\ submitted = 1
    /\ settings  = PlainSettings(max_parallel)
    /\ jobs      = <<PlainJob>>
    /\ w_result  = [w \in Wids |-> "none"]
    /\ pc = "start" /\ rpc = "none"
    /\ job \in [two_pass : BOOLEAN]
    /\ on_exists \in {"overwrite", "skip", "rename"}
    /\ \E k \in 0..MaxCopies :
          /\ fs \in [src : BOOLEAN, dir : BOOLEAN,
                     out : {[n \in 0..MaxCopies |-> IF n < k THEN "ok" ELSE "absent"]},
                     logs : {{}}]
          \* a file at the destination is a file in the destination directory
          /\ k > 0 => fs.dir
          \* with no file in the way the policy is not read: one value stands for all
          /\ k = 0 => on_exists = "overwrite"
          \* only the rename loop looks past the first candidate
          /\ k > 1 => on_exists = "rename"
    /\ proc  = [state |-> "none", rc |-> 0, signalled |-> FALSE]
    /\ proc2 = [state |-> "none", rc |-> 0, signalled |-> FALSE]
    /\ pipe = <<>> /\ written = <<>>
    /\ loc = [dst |-> 0, return_code |-> -1, elapsed |-> FALSE, beats |-> 0]
    /\ duration_seconds = 0
    /\ events = <<>>
    /\ stop_at = "none"
    /\ NoPair
    /\ NoCall

paused  == w_paused[1]
stopped == w_stopped[1]

\* while self._paused and not self._stopped: self._wait_condition.wait(...)
Blocked == paused /\ ~stopped

\* Worker steps leave the Orchestrator alone.
WorkerFrame == UNCHANGED <<orchVars, pairVars, fnVars>>

\* ------------------------------------------------------------ the callers
\* The GUI thread calls into the Worker while run() has not returned (the
\* flags are not read after that).
CallPause  == pc # "end" /\ pause_worker(1)

CallResume == pc # "end" /\ resume_worker(1)

\* stop_worker(1), as Orchestrator.stop_worker forwards it; stop_at
\* remembers a stop that found run() blocked in a pause wait.
CallStop ==
    /\ pc # "end"
    /\ Forward({1} \cap workers, "stop")
    /\ stop_at' = IF stop_at = "none" /\ Blocked /\ pc \in {"start", "mon_wait", "pass2"}
                  THEN pc ELSE stop_at
    /\ UNCHANGED <<pc, rpc, job, on_exists, fs, proc, proc2, pipe, written, loc,
                   duration_seconds, events>>
    /\ UNCHANGED <<pairVars, fnVars>>

\* ------------------------------------------------------------- Worker.run
\* The thread ends after emitting evs.
Finish(evs) ==
    /\ events' = events \o evs
    /\ pc' = "end"

\* A run() that looks for the source file before it looks at the stop flag.
RunBeginSourceFirst(found, startable, creatable) ==
    /\ pc = "start"
    /\ ~Blocked
    /\ LET r == ResolveDst(fs.out, on_exists)
           logs == <<Log("Starting conversion"), Log("Format"), Log("Output"),
                     Log("FFmpeg command")>>
       IN  IF ~fs.src
           THEN Finish(<<Done(FALSE, "Source file not found", NoPath)>>)
                /\ UNCHANGED <<proc, loc>>
           ELSE IF stopped
           THEN Finish(<<Done(FALSE, "Stopped by user", NoPath)>>)
                /\ UNCHANGED <<proc, loc>>
           ELSE IF ~fs.dir /\ ~creatable
           THEN Finish(OnException("makedirs")) /\ UNCHANGED <<proc, loc>>
           ELSE IF r.skip
           THEN Finish(<<Done(TRUE, "Skipped (file exists)", Path(r.dst))>>)
                /\ UNCHANGED <<proc, loc>>
           ELSE IF ~found
           THEN Finish(OnException("FFmpeg not found")) /\ UNCHANGED <<proc, loc>>
           ELSE IF ~startable
           THEN Finish(logs \o <<Done(FALSE, "Failed to start FFmpeg", NoPath)>>)
                /\ UNCHANGED <<proc, loc>>
           ELSE /\ events' = events \o logs
                /\ proc' = [proc EXCEPT !.state = "running"]
                /\ loc' = [loc EXCEPT !.dst = r.dst]
                /\ pc' = "spawned"
    /\ fs' = IF stopped \/ ~fs.src \/ (~fs.dir /\ ~creatable)
             THEN fs ELSE [fs EXCEPT !.dir = TRUE]
    /\ UNCHANGED <<rpc, job, on_exists, proc2, pipe, written,
                   duration_seconds, stop_at>>
    /\ WorkerFrame

\* A run() that computes the destination path, creating the destination
\* directory, before it looks for the source file.
RunBeginPathFirst(found, startable, creatable) ==
    /\ pc = "start"
    /\ ~Blocked
    /\ LET r == ResolveDst(fs.out, on_exists)
           logs == <<Log("Starting conversion"), Log("Format"), Log("Output"),
                     Log("FFmpeg command")>>
       IN  IF stopped
           THEN Finish(<<Done(FALSE, "Stopped by user", NoPath)>>)
                /\ UNCHANGED <<proc, loc>>
           ELSE IF ~fs.dir /\ ~creatable
           THEN Finish(OnException("makedirs")) /\ UNCHANGED <<proc, loc>>
           ELSE IF ~fs.src
           THEN Finish(<<Done(FALSE, "Source file not found", NoPath)>>)
                /\ UNCHANGED <<proc, loc>>
           ELSE IF r.skip
           THEN Finish(<<Done(TRUE, "Skipped (file exists)", Path(r.dst))>>)
                /\ UNCHANGED <<proc, loc>>
           ELSE IF ~found
           THEN Finish(OnException("FFmpeg not found")) /\ UNCHANGED <<proc, loc>>
           ELSE IF ~startable
           THEN Finish(logs \o <<Done(FALSE, "Failed to start FFmpeg", NoPath)>>)
                /\ UNCHANGED <<proc, loc>>
           ELSE /\ events' = events \o logs
                /\ proc' = [proc EXCEPT !.state = "running"]
                /\ loc' = [loc EXCEPT !.dst = r.dst]
                /\ pc' = "spawned"
    /\ fs' = IF stopped \/ (~fs.dir /\ ~creatable)
             THEN fs ELSE [fs EXCEPT !.dir = TRUE]
    /\ UNCHANGED <<rpc, job, on_exists, proc2, pipe, written,
                   duration_seconds, stop_at>>
    /\ WorkerFrame

\* Lines 60-167: the pause wait, the stop check, the source check, out_path
\* (whose os.makedirs creates the destination directory, or raises when it
\* cannot) and the duplicate policy, build_ffmpeg_cmd (which raises when
\* find_ffmpeg finds nothing), the four log lines, run_ffmpeg (None when
\* Popen fails).
RunBegin(found, startable, creatable) ==
    /\ pc = "start"
    /\ ~Blocked
    /\ LET r == ResolveDst(fs.out, on_exists)
           logs == <<Log("Starting conversion"), Log("Format"), Log("Output"),
                     Log("FFmpeg command")>>
       IN  IF stopped
           THEN Finish(<<Done(FALSE, "Stopped by user", NoPath)>>)
                /\ UNCHANGED <<proc, loc>>
           ELSE IF ~fs.src
           THEN Finish(<<Done(FALSE, "Source file not found", NoPath)>>)
                /\ UNCHANGED <<proc, loc>>
           ELSE IF ~fs.dir /\ ~creatable
           THEN Finish(OnException("makedirs")) /\ UNCHANGED <<proc, loc>>
           ELSE IF r.skip
           THEN Finish(<<Done(TRUE, "Skipped (file exists)", Path(r.dst))>>)
                /\ UNCHANGED <<proc, loc>>
           ELSE IF ~found
           THEN Finish(OnException("FFmpeg not found")) /\ UNCHANGED <<proc, loc>>
           ELSE IF ~startable
           THEN Finish(logs \o <<Done(FALSE, "Failed to start FFmpeg", NoPath)>>)
                /\ UNCHANGED <<proc, loc>>
           ELSE /\ events' = events \o logs
                /\ proc' = [proc EXCEPT !.state = "running"]
                /\ loc' = [loc EXCEPT !.dst = r.dst]
                /\ pc' = "spawned"
    /\ fs' = IF stopped \/ ~fs.src \/ (~fs.dir /\ ~creatable)
             THEN fs ELSE [fs EXCEPT !.dir = TRUE]
    /\ UNCHANGED <<rpc, job, on_exists, proc2, pipe, written,
                   duration_seconds, stop_at>>
    /\ WorkerFrame

\* ------------------------------------------------------------ the encoder
\* Whether the running process is the first pass of a two-pass job, which
\* writes to the null device.
FirstOfTwo == job.two_pass

\* The first process writes one more line to stderr.
EncoderWrite(l) ==
    /\ proc.state = "running"
    /\ Len(written) < MaxLines
    /\ l \in NextLines(written)
    /\ pipe' = Append(pipe, l)
    /\ written' = Append(written, l)
    /\ UNCHANGED <<pc, rpc, job, on_exists, fs, proc, proc2, loc,
                   duration_seconds, events, stop_at>>
    /\ WorkerFrame

\* The exit codes a process can end with: 0 or 1 by itself; once
\* terminate() has signalled it, -15, or 0 when it was just finishing.
ExitCodes(p) == IF p.signalled THEN {0, -15} ELSE {0, 1}

\* What an exit with code rc can leave at the destination: anything after
\* 0, a partial file otherwise.
Leaves(rc) == IF rc = 0 THEN {"absent", "small", "ok"} ELSE {"small"}

\* The pass-log files, by the prefix they are named after: the one the
\* encoder is told to write, build_ffmpeg_cmd's dst + ".ffmpeg2pass" with
\* dst = first_pass_dst, the null device (ffmpeg.py:403, for the x264/x265
\* encoders, with "-0.log" appended by the encoder), and the one run()
\* removes, dst + ".ffmpeg2pass-0.log" with the real destination (line 435).
WrittenLog == "first_pass_dst.ffmpeg2pass-0.log"
RemovedLog == "dst.ffmpeg2pass-0.log"

\* Whether a first pass that exits with rc has written its log: it has
\* after 0; after a failure it may have got that far or not.
LogLeft(rc) == IF rc = 0 THEN {TRUE} ELSE {TRUE, FALSE}

\* Lines 433-442: the clean-up of the pass log.
CleanUp(f) == [f EXCEPT !.logs = @ \ {RemovedLog}]

\* The first process exits, leaving the output file as f (a first pass of a
\* two-pass job leaves the destination as it was, and its log if logged).
EncoderExit(rc, f, logged) ==
    /\ proc.state = "running"
    /\ rc \in ExitCodes(proc)
    /\ IF FirstOfTwo THEN f = "absent" /\ logged \in LogLeft(rc)
                     ELSE f \in Leaves(rc) /\ ~logged
    /\ proc' = [proc EXCEPT !.state = "exited", !.rc = rc]
    /\ fs' = IF FirstOfTwo
             THEN [fs EXCEPT !.logs = IF logged THEN @ \cup {WrittenLog} ELSE @]
             ELSE [fs EXCEPT !.out[loc.dst] = f]
    /\ UNCHANGED <<pc, rpc, job, on_exists, proc2, pipe, written, loc,
                   duration_seconds, events, stop_at>>
    /\ WorkerFrame

\* The second-pass process exits, leaving the output file as f.
Encoder2Exit(rc, f) ==
    /\ proc2.state = "running"
    /\ rc \in ExitCodes(proc2)
    /\ f \in Leaves(rc)
    /\ proc2' = [proc2 EXCEPT !.state = "exited", !.rc = rc]
    /\ fs' = [fs EXCEPT !.out[loc.dst] = f]
    /\ UNCHANGED <<pc, rpc, job, on_exists, proc, pipe, written, loc,
                   duration_seconds, events, stop_at>>
    /\ WorkerFrame

\* proc.kill() on the timeout path: the process is gone at once.
Killed(p) == [p EXCEPT !.state = "exited", !.rc = -9]

\* A terminate() that sends no signal.
TerminateIgnored(p) == p

\* proc.terminate(): the signal is sent; the process exits when it gets to it.
Terminated(p) == IF p.state = "running" THEN [p EXCEPT !.signalled = TRUE] ELSE p

\* Lines 169-301: after the 0.1 s sleep, a process that has already exited is
\* reported from what it left on stderr; otherwise the read_stderr thread is
\* started.
RunCheckImmediate ==
    /\ pc = "spawned"
    /\ IF proc.state = "exited"
       THEN LET msg == ClassifyImmediate(ReadAll(pipe).data)
            IN  /\ Finish(<<Log("Error: " \o msg), Done(FALSE, msg, NoPath)>>)
                /\ pipe' = ReadAll(pipe).rest
                /\ UNCHANGED rpc
       ELSE /\ rpc' = "begin"
            /\ pc' = "monitor"
            /\ UNCHANGED <<pipe, events>>
    /\ UNCHANGED <<job, on_exists, fs, proc, proc2, written, loc,
                   duration_seconds, stop_at>>
    /\ WorkerFrame

\* Line 305: while proc.poll() is None.
RunMonitorTest ==
    /\ pc = "monitor"
    /\ pc' = IF proc.state = "running" THEN "mon_wait" ELSE "wait"
    /\ UNCHANGED <<rpc, job, on_exists, fs, proc, proc2, pipe, written, loc,
                   duration_seconds, events, stop_at>>
    /\ WorkerFrame

\* Lines 316-326: every five seconds (tick) the loop emits the heartbeat,
\* whatever read_stderr has reported (last_check_time is touched here only).
Heartbeat(tick) ==
    IF tick THEN <<Progress(HeartbeatPct)>> ELSE <<>>

\* Lines 306-330, one turn of the monitoring loop: the pause wait, the stop
\* check (terminate and leave the loop), the heartbeat, the sleep.
RunMonitorBody(tick) ==
    /\ pc = "mon_wait"
    /\ ~Blocked
    /\ tick => loc.beats < MaxBeats
    /\ IF stopped
       THEN /\ proc' = Terminated(proc)
            /\ pc' = "wait"
            /\ UNCHANGED <<loc, events>>
       ELSE /\ events' = events \o Heartbeat(tick)
            /\ loc' = IF tick THEN [loc EXCEPT !.elapsed = TRUE, !.beats = @ + 1]
                      ELSE loc
            /\ pc' = "monitor"
            /\ UNCHANGED proc
    /\ UNCHANGED <<rpc, job, on_exists, fs, proc2, pipe, written,
                   duration_seconds, stop_at>>
    /\ WorkerFrame

\* Line 334: proc.wait(timeout=3600) returns the exit code.
RunWaitExit ==
    /\ pc = "wait"
    /\ proc.state = "exited"
    /\ loc' = [loc EXCEPT !.return_code = proc.rc]
    /\ pc' = "join"
    /\ UNCHANGED <<rpc, job, on_exists, fs, proc, proc2, pipe, written,
                   duration_seconds, events, stop_at>>
    /\ WorkerFrame

\* Lines 335-339: the hour passes with the process still there: kill it,
\* report the timeout, return.
RunWaitTimeout ==
    /\ pc = "wait"
    /\ proc.state = "running"
    /\ proc' = Killed(proc)
    /\ Finish(<<Done(FALSE, "Conversion timed out after 1 hour", NoPath)>>)
    /\ UNCHANGED <<rpc, job, on_exists, fs, proc2, pipe, written, loc,
                   duration_seconds, stop_at>>
    /\ WorkerFrame

\* Lines 342-404 and 443-444: stderr_done.wait(timeout=2.0) returns, with
\* read_stderr finished or after the two seconds; a two-pass job whose first
\* pass returned 0 starts the second process (return_code = 1 when that
\* fails).
RunJoin(startable) ==
    /\ pc = "join"
    /\ IF job.two_pass /\ loc.return_code = 0
       THEN IF startable
            THEN /\ proc2' = [proc2 EXCEPT !.state = "running"]
                 /\ pc' = "pass2"
                 /\ UNCHANGED loc
            ELSE /\ loc' = [loc EXCEPT !.return_code = 1]
                 /\ pc' = "tail"
                 /\ UNCHANGED proc2
       ELSE /\ pc' = "tail"
            /\ UNCHANGED <<proc2, loc>>
    /\ UNCHANGED <<rpc, job, on_exists, fs, proc, pipe, written,
                   duration_seconds, events, stop_at>>
    /\ WorkerFrame

\* Lines 405-442, the second-pass loop when it has something to do: after
\* the pause wait, a stop terminates proc2 and waits for it; an exited proc2
\* ends the loop, return_code (still 0) becomes its exit code, elapsed is
\* assigned and the final progress is emitted (or its arguments raise).
RunPass2 ==
    /\ pc = "pass2"
    /\ ~Blocked
    /\ stopped \/ proc2.state = "exited"
    /\ IF stopped
       THEN /\ proc2' = Terminated(proc2)
            /\ pc' = "pass2_term"
            /\ UNCHANGED <<loc, events, fs>>
       ELSE /\ loc' = [loc EXCEPT !.return_code = proc2.rc, !.elapsed = TRUE]
            /\ IF FinalProgressArgs(TRUE) = "ok"
               THEN /\ events' = Append(events, Progress(FullProgress))
                    /\ fs' = CleanUp(fs)
                    /\ pc' = "tail"
               ELSE Finish(OnException(FinalProgressArgs(TRUE))) /\ UNCHANGED fs
            /\ UNCHANGED proc2
    /\ UNCHANGED <<rpc, job, on_exists, proc, pipe, written,
                   duration_seconds, stop_at>>
    /\ WorkerFrame

\* Lines 414-417 and 433-442: proc2.wait() after terminate returns;
\* return_code = 1; the clean-up of the pass log.
RunPass2Stopped ==
    /\ pc = "pass2_term"
    /\ proc2.state = "exited"
    /\ loc' = [loc EXCEPT !.return_code = 1]
    /\ fs' = CleanUp(fs)
    /\ pc' = "tail"
    /\ UNCHANGED <<rpc, job, on_exists, proc, proc2, pipe, written,
                   duration_seconds, events, stop_at>>
    /\ WorkerFrame

\* Lines 463-491, once the final progress has been emitted: the output
\* checks and the deletion of the source (delete_original: the job's flag,
\* read here and nowhere else; removable: os.remove succeeds).
Verdict(f, delete_original, removable) ==
    LET dst == Path(loc.dst)
        out == f.out[loc.dst]
    IN  IF ~Exists(out)
        THEN [ev |-> Done(FALSE, "output file not found", NoPath), fs |-> f]
        ELSE IF SizeOf(out) < MinOutputSize
        THEN [ev |-> Done(FALSE, "Output file is too small", dst), fs |-> f]
        ELSE IF delete_original /\ f.src
        THEN IF removable
             THEN [ev |-> Done(TRUE, "Conversion completed, original file deleted", dst),
                   fs |-> [f EXCEPT !.src = FALSE]]
             ELSE [ev |-> Done(TRUE, "Conversion completed, but failed to delete original", dst),
                   fs |-> f]
        ELSE [ev |-> Done(TRUE, "Conversion completed successfully", dst), fs |-> f]

\* A tail of run() that removes the source on the failure path as well.
RunTailRemovesAnyway(delete_original, removable) ==
    /\ pc = "tail"
    /\ LET rd1  == ReadAll(pipe)
           rd2  == ReadAll(rd1.rest)
           logs == LogLines(LastFive(rd1.data))
           args == FinalProgressArgs(loc.elapsed)
       IN  /\ pipe' = rd2.rest
           /\ IF loc.return_code = 0
              THEN IF args = "ok"
                   THEN /\ Finish(logs \o <<Progress(FullProgress),
                                            Verdict(fs, delete_original, removable).ev>>)
                        /\ fs' = Verdict(fs, delete_original, removable).fs
                   ELSE /\ Finish(logs \o OnException(args))
                        /\ UNCHANGED fs
              ELSE /\ Finish(logs \o <<Done(FALSE, ClassifyFailure(rd2.data), NoPath)>>)
                   /\ fs' = IF delete_original /\ removable
                            THEN [fs EXCEPT !.src = FALSE] ELSE fs
    /\ UNCHANGED <<rpc, job, on_exists, proc, proc2, written, loc,
                   duration_seconds, stop_at>>
    /\ WorkerFrame

\* Lines 446-505: read what is left on proc.stderr and log it; with
\* return_code 0 emit the final progress and give the verdict, otherwise
\* read proc.stderr again and classify the failure from that.
RunTail(delete_original, removable) ==
    /\ pc = "tail"
    /\ LET rd1  == ReadAll(pipe)
           rd2  == ReadAll(rd1.rest)
           logs == LogLines(LastFive(rd1.data))
           args == FinalProgressArgs(loc.elapsed)
       IN  /\ pipe' = rd2.rest
           /\ IF loc.return_code = 0
              THEN IF args = "ok"
                   THEN /\ Finish(logs \o <<Progress(FullProgress),
                                            Verdict(fs, delete_original, removable).ev>>)
                        /\ fs' = Verdict(fs, delete_original, removable).fs
                   ELSE /\ Finish(logs \o OnException(args))
                        /\ UNCHANGED fs
              ELSE /\ Finish(logs \o <<Done(FALSE, ClassifyFailure(rd2.data), NoPath)>>)
                   /\ UNCHANGED fs
    /\ UNCHANGED <<rpc, job, on_exists, proc, proc2, written, loc,
                   duration_seconds, stop_at>>
    /\ WorkerFrame

\* ------------------------------------------------------------ read_stderr
\* Lines 206-216: the thread starts.  "import msvcrt" (line 208, outside
\* the try) succeeds on Windows only: elsewhere the thread ends there, with
\* nothing logged and stderr_done never set.  Otherwise it logs "Reading
\* FFmpeg output...".
ReaderBegin(importable) ==
    /\ rpc = "begin"
    /\ events' = IF importable THEN Append(events, Log("Reading FFmpeg output"))
                 ELSE events
    /\ rpc' = IF importable THEN "test" ELSE "raised"
    /\ UNCHANGED <<pc, job, on_exists, fs, proc, proc2, pipe, written, loc,
                   duration_seconds, stop_at>>
    /\ WorkerFrame

\* Line 218: while proc.poll() is None.
ReaderTest ==
    /\ rpc = "test"
    /\ rpc' = IF proc.state = "running" THEN "read" ELSE "drain"
    /\ UNCHANGED <<pc, job, on_exists, fs, proc, proc2, pipe, written, loc,
                   duration_seconds, events, stop_at>>
    /\ WorkerFrame

\* What one line makes read_stderr emit (lines 236-276), with the duration
\* known before it (0: None).
LineEvents(l, dur) ==
    <<Log(Text(l))>>
    \o (IF dur = 0 /\ l.k = "dur" THEN <<Log("Detected duration")>> ELSE <<>>)
    \o (IF l.k = "time" /\ dur > 0 THEN <<Progress(ProgressOf(l.v, dur))>> ELSE <<>>)

\* Lines 228-278: readline() returns the next line, which is logged and
\* parsed, or returns nothing at end of file.
ReaderRead ==
    /\ rpc = "read"
    /\ pipe # <<>> \/ proc.state = "exited"
    /\ IF pipe # <<>>
       THEN LET l == Head(pipe)
            IN  /\ pipe' = Tail(pipe)
                /\ events' = events \o LineEvents(l, duration_seconds)
                /\ duration_seconds' =
                       IF duration_seconds = 0 /\ l.k = "dur" THEN l.v
                       ELSE duration_seconds
       ELSE UNCHANGED <<pipe, events, duration_seconds>>
    /\ rpc' = "test"
    /\ UNCHANGED <<pc, job, on_exists, fs, proc, proc2, written, loc, stop_at>>
    /\ WorkerFrame

\* Lines 280-297: the rest of the stream is read and logged, then
\* stderr_done is set.
ReaderDrain ==
    /\ rpc = "drain"
    /\ events' = events \o LogLines(ReadAll(pipe).data)
    /\ pipe' = ReadAll(pipe).rest
    /\ rpc' = "done"
    /\ UNCHANGED <<pc, job, on_exists, fs, proc, proc2, written, loc,
                   duration_seconds, stop_at>>
    /\ WorkerFrame

NextWorker ==
    \/ CallPause
    \/ CallResume
    \/ CallStop
    \/ \E found, startable, creatable \in BOOLEAN : RunBegin(found, startable, creatable)
    \/ \E l \in NextLines(written) : EncoderWrite(l)
    \/ \E rc \in {0, 1, -15}, f \in {"absent", "small", "ok"}, logged \in BOOLEAN :
          EncoderExit(rc, f, logged)
    \/ \E rc \in {0, 1, -15}, f \in {"absent", "small", "ok"} : Encoder2Exit(rc, f)
    \/ RunCheckImmediate
    \/ RunMonitorTest
    \/ \E tick \in BOOLEAN : RunMonitorBody(tick)
    \/ RunWaitExit
    \/ RunWaitTimeout
    \/ \E startable \in BOOLEAN : RunJoin(startable)
    \/ RunPass2
    \/ RunPass2Stopped
    \/ \E delete_original, removable \in BOOLEAN : RunTail(delete_original, removable)
    \/ \E importable \in BOOLEAN : ReaderBegin(importable)
    \/ ReaderTest
    \/ ReaderRead
    \/ ReaderDrain

SpecWorker == InitWorker /\ [][NextWorker]_vars

\* The steps of the thread of run(), and of the read_stderr thread.
RunThread ==
    \/ \E found, startable, creatable \in BOOLEAN : RunBegin(found, startable, creatable)
    \/ RunCheckImmediate
    \/ RunMonitorTest
    \/ \E tick \in BOOLEAN : RunMonitorBody(tick)
    \/ RunWaitExit
    \/ RunWaitTimeout
    \/ \E startable \in BOOLEAN : RunJoin(startable)
    \/ RunPass2
    \/ RunPass2Stopped
    \/ \E delete_original, removable \in BOOLEAN : RunTail(delete_original, removable)

ReaderThread ==
    \/ \E importable \in BOOLEAN : ReaderBegin(importable)
    \/ ReaderTest
    \/ ReaderRead
    \/ ReaderDrain

\* Both threads are scheduled: a thread that can take a step takes one (a
\* timed wait that can time out does).  Nothing makes an encoder process
\* exit, and nothing makes the callers act.
FairWorker == SpecWorker /\ WF_vars(RunThread) /\ WF_vars(ReaderThread)

\* An encoder process that terminate() has signalled exits.
SignalledExit ==
    \/ /\ proc.signalled
       /\ \E rc \in {0, 1, -15}, f \in {"absent", "small", "ok"}, logged \in BOOLEAN :
             EncoderExit(rc, f, logged)
    \/ /\ proc2.signalled
       /\ \E rc \in {0, 1, -15}, f \in {"absent", "small", "ok"} : Encoder2Exit(rc, f)

\* The Worker of a Job whose source is there and whose destination is free.
InitStopped == InitWorker /\ fs.src /\ fs.out[0] = "absent"

SpecStopped == InitStopped /\ [][NextWorker]_vars

\* Both threads are scheduled, and an encoder process exits once it has been
\* terminated.
FairStopped ==
    SpecStopped /\ WF_vars(RunThread) /\ WF_vars(ReaderThread) /\ WF_vars(SignalledExit)

\* ---------------------------------------------- pausing beside a Worker
\* Workers 1 and 2 have both been admitted (parallel = 2); the thread of
\* Worker 1 is about to run a Job whose source is there and whose
\* destination is free, Worker 2 is active beside it.
InitPause ==
    /\ max_parallel = 2
    /\ workers   = {1, 2}
    /\ job_queue = <<>>
    /\ next_wid  = 3
    /\ wjob      = [w \in Wids |-> IF w \in {1, 2} THEN w ELSE 0]
    /\ w_paused  = [w \in Wids |-> FALSE]
    /\ w_stopped = [w \in Wids |-> FALSE]
    /\ wthread   = [w \in Wids |-> IF w \in {1, 2} THEN "running" ELSE "none"]
    /\ mainQueue = <<>>
    /\ emitted   = <<<<"started", 1, 1>>, <<"started", 2, 2>>>>
    /\ submitted = 2
    /\ settings  = PlainSettings(max_parallel)
    /\ jobs      = <<PlainJob, PlainJob>>
    /\ w_result  = [w \in Wids |-> "none"]
    /\ pc = "start" /\ rpc = "none"
    /\ job \in [two_pass : BOOLEAN]
    /\ on_exists = "overwrite"
    /\ fs = [src |-> TRUE, dir |-> TRUE,
             out |-> [n \in 0..MaxCopies |-> "absent"], logs |-> {}]
    /\ proc  = [state |-> "none", rc |-> 0, signalled |-> FALSE]
    /\ proc2 = [state |-> "none", rc |-> 0, signalled |-> FALSE]
    /\ pipe = <<>> /\ written = <<>>
    /\ loc = [dst |-> 0, return_code |-> -1, elapsed |-> FALSE, beats |-> 0]
    /\ duration_seconds = 0
    /\ events = <<>>
    /\ stop_at = "none"
    /\ NoPair
    /\ NoCall

\* The GUI thread's other pause and resume calls, while run() of Worker 1
\* has not returned: for any id, and for all the active Workers.
CallPauseWorker(wid)  == pc # "end" /\ pause_worker(wid)

CallResumeWorker(wid) == pc # "end" /\ resume_worker(wid)

CallPauseAll  == pc # "end" /\ pause_all

CallResumeAll == pc # "end" /\ resume_all

\* The callers, the thread of run() between the ticks of its heartbeat, the
\* reader and the encoder processes.
NextPause ==
    \/ CallStop
    \/ \E found, startable, creatable \in BOOLEAN : RunBegin(found, startable, creatable)
    \/ \E rc \in {0, 1, -15}, f \in {"absent", "small", "ok"}, logged \in BOOLEAN :
          EncoderExit(rc, f, logged)
    \/ \E rc \in {0, 1, -15}, f \in {"absent", "small", "ok"} : Encoder2Exit(rc, f)
    \/ \E l \in NextLines(written) : EncoderWrite(l)
    \/ RunCheckImmediate
    \/ RunMonitorTest
    \/ RunMonitorBody(FALSE)
    \/ RunWaitExit
    \/ RunWaitTimeout
    \/ \E startable \in BOOLEAN : RunJoin(startable)
    \/ RunPass2
    \/ RunPass2Stopped
    \/ \E delete_original, removable \in BOOLEAN : RunTail(delete_original, removable)
    \/ \E importable \in BOOLEAN : ReaderBegin(importable)
    \/ ReaderTest
    \/ ReaderRead
    \/ ReaderDrain
    \/ \E wid \in Wids : CallPauseWorker(wid)
    \/ \E wid \in Wids : CallResumeWorker(wid)
    \/ CallPauseAll
    \/ CallResumeAll

SpecPause == InitPause /\ [][NextPause]_vars

\* =============================================================== Part III
\* Workers 1 and 2 are active together.  Each job's out_path(dst_dir, src,
\* format) has one of two base names; both jobs can have the same one (the
\* same file added twice, or two sources of one name converted into one
\* directory).
Pair  == {1, 2}
Bases == {"a", "b"}

\* The candidates "base.ext", "base (1).ext", ...: those that can exist
\* beforehand, and one more for each Worker.
Cands == 0..(MaxCopies + 2)

InitPair ==
    /\ max_parallel = 2
    /\ workers   = Pair
    /\ job_queue = <<>>
    /\ next_wid  = 3
    /\ wjob      = [w \in Wids |-> IF w \in Pair THEN w ELSE 0]
    /\ w_paused  = [w \in Wids |-> FALSE]
    /\ w_stopped = [w \in Wids |-> FALSE]
    /\ wthread   = [w \in Wids |-> IF w \in Pair THEN "running" ELSE "none"]
    /\ mainQueue = <<>>
    /\ emitted   = <<<<"started", 1, 1>>, <<"started", 2, 2>>>>
    /\ submitted = 2
    /\ settings  = PlainSettings(max_parallel)
    /\ jobs      = <<PlainJob, PlainJob>>
    /\ w_result  = [w \in Wids |-> "none"]
    /\ pc = "none" /\ rpc = "none"
    /\ job = [two_pass |-> FALSE]
    /\ on_exists \in {"overwrite", "skip", "rename"}
    /\ fs = [src |-> TRUE, dir |-> TRUE,
             out |-> [n \in 0..MaxCopies |-> "absent"], logs |-> {}]
    /\ proc = [state |-> "none", rc |-> 0, signalled |-> FALSE]
    /\ proc2 = [state |-> "none", rc |-> 0, signalled |-> FALSE]
    /\ pipe = <<>> /\ written = <<>>
    /\ loc = [dst |-> 0, return_code |-> -1, elapsed |-> FALSE, beats |-> 0]
    /\ duration_seconds = 0
    /\ events = <<>>
    /\ stop_at = "none"
    /\ pjob \in [Pair -> Bases]
    /\ ppc  = [w \in Pair |-> "start"]
    /\ pdst = [w \in Pair |-> -1]
    /\ \E have \in [Bases -> SUBSET (0..MaxCopies)] :
          disk = [b \in Bases |->
                    [n \in Cands |-> IF n \in have[b] THEN "ok" ELSE "absent"]]
    /\ NoCall

PairFrame == UNCHANGED <<orchVars, wkVars, fnVars>>

\* Lines 76-90 of run() in Worker w: out_path, the exists check, the
\* duplicate policy ("skip" returns).
PairResolve(w) ==
    /\ ppc[w] = "start"
    /\ LET r == ResolveDst(disk[pjob[w]], on_exists)
       IN  IF r.skip
           THEN /\ ppc' = [ppc EXCEPT ![w] = "end"]
                /\ UNCHANGED pdst
           ELSE /\ ppc' = [ppc EXCEPT ![w] = "resolved"]
                /\ pdst' = [pdst EXCEPT ![w] = r.dst]
    /\ UNCHANGED <<pjob, disk>>
    /\ PairFrame

\* Line 160: the encoder of Worker w is spawned with "-y dst" (ffmpeg.py:650)
\* and opens its output file.
PairSpawn(w) ==
    /\ ppc[w] = "resolved"
    /\ ppc' = [ppc EXCEPT ![w] = "encoding"]
    /\ disk' = [disk EXCEPT ![pjob[w]][pdst[w]] = "small"]
    /\ UNCHANGED <<pjob, pdst>>
    /\ PairFrame

\* The encoder of Worker w exits, leaving its output file as f, and run()
\* returns.
PairExit(w, f) ==
    /\ ppc[w] = "encoding"
    /\ ppc' = [ppc EXCEPT ![w] = "end"]
    /\ disk' = [disk EXCEPT ![pjob[w]][pdst[w]] = f]
    /\ UNCHANGED <<pjob, pdst>>
    /\ PairFrame

NextPair ==
    \/ \E w \in Pair : PairResolve(w)
    \/ \E w \in Pair : PairSpawn(w)
    \/ \E w \in Pair, f \in {"small", "ok"} : PairExit(w, f)

SpecPair == InitPair /\ [][NextPair]_vars

\* ================================================================ Part IV
\* util/ffmpeg.py, out_path(dst_dir, src, fmt).  A string is the sequence of
\* its characters.

\* The keys of ext_map (lines 790-822): audio, then video.
ext_keys == {
    <<"m", "p", "3">>, <<"a", "a", "c">>, <<"m", "4", "a">>,
    <<"o", "p", "u", "s">>, <<"o", "g", "g">>, <<"f", "l", "a", "c">>,
    <<"w", "a", "v">>, <<"a", "i", "f", "f">>, <<"w", "m", "a">>,
    <<"a", "c", "3">>, <<"e", "a", "c", "3">>, <<"a", "p", "e">>,
    <<"t", "t", "a">>, <<"w", "v">>, <<"m", "p", "2">>, <<"a", "m", "r">>,
    <<"c", "a", "f">>, <<"a", "u">>, <<"m", "k", "a">>,
    <<"m", "p", "4">>, <<"m", "k", "v">>, <<"a", "v", "i">>,
    <<"m", "o", "v">>, <<"w", "m", "v">>, <<"f", "l", "v">>,
    <<"w", "e", "b", "m">>, <<"m", "4", "v">>, <<"3", "g", "p">>,
    <<"o", "g", "v">> }

\* str.lower(), on the letters the inputs below are written with.
lower(s) ==
    LET lower_char(c) ==
            CASE c = "A" -> "a" [] c = "M" -> "m" [] c = "P" -> "p"
              [] c = "U" -> "u" [] c = "X" -> "x" [] c = "Y" -> "y"
              [] OTHER -> c
    IN  [i \in DOMAIN s |-> lower_char(s[i])]

\* str.rfind(c) + 1: the place of the last c in s, 0 when there is none.
rfind(s, c) ==
    LET at == {i \in DOMAIN s : s[i] = c}
    IN  IF at = {} THEN 0 ELSE CHOOSE i \in at : \A j \in at : j <= i

\* The home directory os.path.expanduser puts for a leading "~".
Home == <<"/", "h">>

\* os.path.expanduser: "~" alone or "~/..." has its "~" replaced.
expanduser(path) ==
    IF path # <<>> /\ path[1] = "~" /\ (Len(path) = 1 \/ path[2] = "/")
    THEN Home \o Tail(path)
    ELSE path

\* os.path.basename: what follows the last "/".
basename(path) == SubSeq(path, rfind(path, "/") + 1, Len(path))

\* os.path.splitext(p)[0]: p up to its last ".", when that "." comes after
\* the last "/" and after a character of the file name that is not a ".".
splitext_root(p) ==
    LET sep == rfind(p, "/")
        dot == rfind(p, ".")
    IN  IF dot > sep /\ \E i \in (sep + 1)..(dot - 1) : p[i] # "."
        THEN SubSeq(p, 1, dot - 1)
        ELSE p

\* os.path.join(a, b), POSIX.
join(a, b) ==
    IF b # <<>> /\ b[1] = "/" THEN b
    ELSE IF a = <<>> \/ a[Len(a)] = "/" THEN a \o b
    ELSE a \o <<"/">> \o b

\* Line 824: ext_map.get(fmt.lower(), f".{fmt}"); every value of ext_map is
\* "." followed by its key.
ext_of(fmt) ==
    IF lower(fmt) \in ext_keys THEN <<".">> \o lower(fmt) ELSE <<".">> \o fmt

\* Mutant of out_path: the source's extension is kept in the name.
out_path_keeps_ext(dst_dir, src, fmt, creatable) ==
    IF ~creatable \/ expanduser(dst_dir) = <<>>
    THEN [state |-> "raised", value |-> <<>>]
    ELSE [state |-> "returned",
          value |-> join(expanduser(dst_dir), basename(src) \o ext_of(fmt))]

\* out_path.  os.makedirs(dst_dir, exist_ok=True) raises when the directory
\* cannot be created, and always for the empty path.
out_path(dst_dir, src, fmt, creatable) ==
    IF ~creatable \/ expanduser(dst_dir) = <<>>
    THEN [state |-> "raised", value |-> <<>>]
    ELSE [state |-> "returned",
          value |-> join(expanduser(dst_dir),
                         splitext_root(basename(src)) \o ext_of(fmt))]

\* The arguments tried.
OutPathCalls ==
    [dst_dir : { <<>>, <<"o">>, <<"/", "o">>, <<"/", "o", "/">>, <<"~">>,
                 <<"~", "/", "o">> },
     src : { <<"a", ".", "m">>, <<"/", "m", "/", "a", ".", "m">>,
             <<"/", "m", ".", "d", "/", "a">>, <<".", "a">>,
             <<"a", ".", "m", ".", "x">>, <<"a", ".">> },
     fmt : { <<"m", "p", "3">>, <<"M", "P", "3">>, <<"a", "u">>, <<"A", "u">>,
             <<"x", "y">>, <<"X", "y">>, <<>> }]

\* The rest of the program is idle in Part IV.
NoOrch ==
    /\ max_parallel = 1
    /\ workers   = {}
    /\ job_queue = <<>>
    /\ next_wid  = 1
    /\ wjob      = [w \in Wids |-> 0]
    /\ w_paused  = [w \in Wids |-> FALSE]
    /\ w_stopped = [w \in Wids |-> FALSE]
    /\ wthread   = [w \in Wids |-> "none"]
    /\ mainQueue = <<>>
    /\ emitted   = <<>>
    /\ submitted = 0
    /\ settings  = PlainSettings(max_parallel)
    /\ jobs      = <<>>
    /\ w_result  = [w \in Wids |-> "none"]

InitOutPath ==
    /\ NoOrch /\ NoWorker /\ NoPair
    /\ cjob = <<>> /\ cpc = <<>> /\ spawned = <<>>
    /\ call \in OutPathCalls
    /\ ret = [state |-> "none", value |-> <<>>]

\* Line 77 of Worker.run: dst = out_path(job.dst_dir, job.src, job.format).
CallOutPath(creatable) ==
    /\ ret.state = "none"
    /\ ret' = out_path(call.dst_dir, call.src, call.fmt, creatable)
    /\ UNCHANGED <<call, cjob, cpc, spawned, orchVars, wkVars, pairVars>>

NextOutPath == \E creatable \in BOOLEAN : CallOutPath(creatable)

SpecOutPath == InitOutPath /\ [][NextOutPath]_vars

\* ================================================================= Part V
\* The argument vectors of one Worker.  An argument is a string; the Job's
\* format is written in lower case, so fmt.lower() is fmt.  The Job fields
\* not named here are as the dataclass leaves them (models.py:8-70), and with
\* them the arguments they would add are absent.

\* The platform's null device (orchestrator.py:96-99).
NullSink(windows) == IF windows THEN "NUL" ELSE "/dev/null"

\* is_video_file(path): by the extension of the paths used here.
is_video_file(path) == path \in {"o/a.mp4", "m/a.mp4", "o/a.webm"}

\* path + ".ffmpeg2pass" (ffmpeg.py:403, orchestrator.py:396).
PassLogFile(path) ==
    CASE path = "/dev/null" -> "/dev/null.ffmpeg2pass"
      [] path = "NUL"       -> "NUL.ffmpeg2pass"
      [] path = "o/a.mp4"   -> "o/a.mp4.ffmpeg2pass"
      [] path = "o/a.webm"  -> "o/a.webm.ffmpeg2pass"
      [] path = "o/a.mp3"   -> "o/a.mp3.ffmpeg2pass"

\* list.index(x), counted from 1; 0 stands for ValueError.
Index(list, x) ==
    LET at == {i \in DOMAIN list : list[i] = x}
    IN  IF at = {} THEN 0 ELSE CHOOSE i \in at : \A k \in at : i <= k

\* build_ffmpeg_cmd(src, dst, fmt, ..., two_pass=two_pass), having found the
\* encoder: the input, the arguments of one of the three branches (audio out
\* of video, video, audio), the metadata copy, the custom arguments, the
\* container format for a null device, and "-y dst".  In the video branch:
\* the codec (lines 342-353), the stream maps, the quality arguments of the
\* size reduction or of the explicit bitrate or quality (382-420), the named
\* quality preset, which takes the first "-crf" and the first "-preset" out
\* of the vector before it adds its own (422-450), the audio codec, and
\* "-preset medium" for x264/x265 without size reduction (509-511).  An
\* option that is not given is "".
build_ffmpeg_cmd(j, dst, two_pass) ==
    LET src_is_video == is_video_file(j.src)
        dst_is_video == IF dst \in {"NUL", "/dev/null"} THEN src_is_video
                        ELSE is_video_file(dst)
        head == <<"ffmpeg", "-i", j.src>>
        vcodec == IF j.reduce_size /\ j.use_hevc
                  THEN (IF j.fmt \in {"mp4", "mkv", "m4v"} THEN "libx265" ELSE "libx264")
                  ELSE IF j.video_codec # "" THEN j.video_codec
                  ELSE IF j.fmt = "webm" THEN "libvpx-vp9" ELSE "libx264"
        x26 == vcodec \in {"libx264", "libx265"}
        crf == <<"-crf", "28">>
        quality ==
            IF j.reduce_size
            THEN IF x26
                 THEN <<"-preset", "slow">>
                      \o (IF two_pass
                          THEN <<"-pass", "1", "-passlogfile", PassLogFile(dst)>>
                          ELSE crf)
                 ELSE IF vcodec = "libvpx-vp9" THEN crf \o <<"-b:v", "0">>
                 ELSE <<>>
            ELSE IF j.video_bitrate # ""
                 THEN <<"-b:v", CASE j.video_bitrate = "800" -> "800k">>
            ELSE IF j.video_quality # ""
                 THEN IF x26 THEN <<"-crf", j.video_quality>>
                      ELSE IF vcodec = "libvpx-vp9"
                           THEN <<"-crf", j.video_quality, "-b:v", "0">>
                           ELSE <<>>
            ELSE <<>>
        \* quality_map.get(video_quality_preset.lower())
        q == CASE j.video_quality_preset \in {"low", "LOW"}   -> <<"32", "fast">>
               [] j.video_quality_preset \in {"high", "HIGH"} -> <<"23", "slow">>
               [] OTHER -> <<>>
        \* idx = cmd.index(x); cmd.pop(idx); cmd.pop(idx), when x is in cmd
        pop2(cmd, x) == IF Index(cmd, x) = 0 THEN cmd
                        ELSE SubSeq(cmd, 1, Index(cmd, x) - 1)
                             \o SubSeq(cmd, Index(cmd, x) + 2, Len(cmd))
        coded == head \o <<"-c:v", vcodec, "-map", "0:v:0", "-map", "0:a:0">> \o quality
        preset == IF j.video_quality_preset = "" \/ j.reduce_size \/ q = <<>> THEN coded
                  ELSE IF x26
                       THEN pop2(pop2(coded, "-crf"), "-preset")
                            \o <<"-crf", q[1], "-preset", q[2]>>
                  ELSE IF vcodec = "libvpx-vp9"
                       THEN pop2(coded, "-crf") \o <<"-crf", q[1], "-b:v", "0">>
                  ELSE coded
        acodec == IF j.fmt = "webm" THEN "libopus" ELSE "aac"
        video == preset
                 \o <<"-c:a", acodec>>
                 \o (IF acodec = "aac" THEN <<"-b:a", "192k">> ELSE <<>>)
                 \o (IF x26 /\ ~j.reduce_size THEN <<"-preset", "medium">> ELSE <<>>)
        codec == IF j.fmt = "mp3" THEN "libmp3lame" ELSE "copy"
        branch == IF j.extract_audio_only \/ (src_is_video /\ ~dst_is_video)
                  THEN head \o <<"-vn", "-c:a", codec>>
                  ELSE IF dst_is_video THEN video
                  ELSE head \o <<"-c:a", codec>>
        sink_format == IF dst \in {"NUL", "/dev/null"} THEN <<"-f", j.fmt>> ELSE <<>>
    IN  branch \o <<"-map_metadata", "0">>
        \o j.custom_args \o sink_format \o <<"-y", dst>>

\* The test of lines 94 and 345.
TwoPassJob(j) == j.two_pass /\ j.reduce_size /\ ~j.extract_audio_only

\* Lines 348-401: the vector of the second pass, made from the first vector:
\* "-pass" gets "2" and the first argument equal to first_pass_dst becomes
\* dst; with no "-pass" in the vector it is built again for dst, without
\* two_pass, and "-pass 2 -passlogfile dst.ffmpeg2pass" is put in before the
\* argument that precedes the first argument equal to dst.
SecondPassCmd(cmd, j, first_pass_dst, dst) ==
    IF Index(cmd, "-pass") # 0
    THEN LET patched == [cmd EXCEPT ![Index(cmd, "-pass") + 1] = "2"]
         IN  [patched EXCEPT ![Index(patched, first_pass_dst)] = dst]
    ELSE LET rebuilt == build_ffmpeg_cmd(j, dst, FALSE)
             at == Index(rebuilt, "-passlogfile")
             before == Index(rebuilt, dst) - 2
         IN  IF at # 0
             THEN SubSeq(rebuilt, 1, at + 1) \o <<"-pass", "2">>
                  \o SubSeq(rebuilt, at + 2, Len(rebuilt))
             ELSE SubSeq(rebuilt, 1, before)
                  \o <<"-pass", "2", "-passlogfile", PassLogFile(dst)>>
                  \o SubSeq(rebuilt, before + 1, Len(rebuilt))

\* out_path(dst_dir, src, format) for the Jobs below: "o/a" and the format.
DstOf(j) == CASE j.fmt = "mp4" -> "o/a.mp4" [] j.fmt = "webm" -> "o/a.webm"
              [] j.fmt = "mp3" -> "o/a.mp3"

\* The Jobs tried: a video or an audio source (one video source is the
\* destination itself), three formats, the flags of the size reduction,
\* custom arguments that name the null device or none, and the video
\* options: a codec override, an explicit bitrate or quality, and a quality
\* preset (named in either case, or one that is not in the table).
CmdJobs ==
    [src : {"o/a.mp4", "m/a.mp4", "m/a.wav"}, fmt : {"mp4", "webm", "mp3"},
     two_pass : BOOLEAN, reduce_size : BOOLEAN, use_hevc : BOOLEAN,
     extract_audio_only : BOOLEAN,
     custom_args : {<<>>, <<"-progress", "/dev/null">>},
     video_codec : {"", "libx265", "mpeg4"},
     video_bitrate : {"", "800"}, video_quality : {"", "20"},
     video_quality_preset : {"", "high", "LOW", "best"},
     windows : BOOLEAN]

\* The Workers of a run, each with its Job, none of them started.
CmdWorkers(js) ==
    /\ NoOrch /\ NoWorker /\ NoPair
    /\ call = <<>> /\ ret = <<>>
    /\ cjob = js
    /\ cpc = [w \in DOMAIN js |-> "start"]
    /\ spawned = [w \in DOMAIN js |-> <<>>]

\* One Worker, with any of the Jobs.
InitCmd == \E j \in CmdJobs : CmdWorkers(<<j>>)

CmdFrame == UNCHANGED <<call, ret, cjob, orchVars, wkVars, pairVars>>

\* Lines 92-160: first_pass_dst, build_ffmpeg_cmd (which raises when
\* find_ffmpeg finds nothing), run_ffmpeg.
CmdFirst(w, found) ==
    /\ w \in DOMAIN cjob
    /\ cpc[w] = "start"
    /\ IF found
       THEN LET first_pass_dst == IF TwoPassJob(cjob[w]) THEN NullSink(cjob[w].windows)
                                  ELSE DstOf(cjob[w])
            IN  /\ spawned' = [spawned EXCEPT ![w] =
                       <<[cmd |-> build_ffmpeg_cmd(cjob[w], first_pass_dst,
                                                   cjob[w].two_pass),
                          rc |-> -1]>>]
                /\ cpc' = [cpc EXCEPT ![w] = "pass1"]
       ELSE cpc' = [cpc EXCEPT ![w] = "end"] /\ UNCHANGED spawned
    /\ CmdFrame

\* Line 334: proc.wait returns the exit code of the first process.
CmdExit1(w, rc) ==
    /\ w \in DOMAIN cjob
    /\ cpc[w] = "pass1"
    /\ spawned' = [spawned EXCEPT ![w][1].rc = rc]
    /\ cpc' = [cpc EXCEPT ![w] = "exited1"]
    /\ CmdFrame

\* Lines 345-404: the second pass of a two-pass Job whose first process
\* returned 0.
CmdSecond(w) ==
    /\ w \in DOMAIN cjob
    /\ cpc[w] = "exited1"
    /\ IF TwoPassJob(cjob[w]) /\ spawned[w][1].rc = 0
       THEN /\ spawned' = [spawned EXCEPT ![w] = Append(@,
                   [cmd |-> SecondPassCmd(spawned[w][1].cmd, cjob[w],
                                          NullSink(cjob[w].windows), DstOf(cjob[w])),
                    rc |-> -1])]
            /\ cpc' = [cpc EXCEPT ![w] = "pass2"]
       ELSE cpc' = [cpc EXCEPT ![w] = "end"] /\ UNCHANGED spawned
    /\ CmdFrame

\* Line 425: proc2.wait returns.
CmdExit2(w, rc) ==
    /\ w \in DOMAIN cjob
    /\ cpc[w] = "pass2"
    /\ spawned' = [spawned EXCEPT ![w][2].rc = rc]
    /\ cpc' = [cpc EXCEPT ![w] = "end"]
    /\ CmdFrame

NextCmd ==
    \/ \E w \in Wids, found \in BOOLEAN : CmdFirst(w, found)
    \/ \E w \in Wids, rc \in {0, 1} : CmdExit1(w, rc)
    \/ \E w \in Wids : CmdSecond(w)
    \/ \E w \in Wids, rc \in {0, 1} : CmdExit2(w, rc)

SpecCmd == InitCmd /\ [][NextCmd]_vars

\* Two Workers of one Orchestrator, active together: two-pass Jobs for the
\* same source on one platform, to formats encoded with libx264 or libx265
\* (format "webm" with HEVC asked for gets libx264).
LogJobs ==
    {j \in CmdJobs : /\ TwoPassJob(j) /\ j.src = "m/a.mp4" /\ j.custom_args = <<>>
                     /\ j.video_codec = "" /\ j.video_bitrate = ""
                     /\ j.video_quality = "" /\ j.video_quality_preset = ""
                     /\ (j.fmt = "mp4" \/ (j.fmt = "webm" /\ j.use_hevc))}

InitLogs ==
    \E j1, j2 \in LogJobs : j1.windows = j2.windows /\ CmdWorkers(<<j1, j2>>)

SpecLogs == InitLogs /\ [][NextCmd]_vars

\* ========================================================== claims, Part I
Active == Cardinality(workers)

IsStarted(e) == e[1] = "started"
IsDone(e)    == e[1] = "done"

\* The signals emitted by the step just taken.
NewEvents == SubSeq(emitted', Len(emitted) + 1, Len(emitted'))

StartedCount(seq) == Cardinality({i \in 1..Len(seq) : IsStarted(seq[i])})

\* C1 as stated: in every reachable state the active map holds at most
\* max_parallel Workers.
C1_ActiveAtMostBound == Active <= max_parallel

\* C1, amended: no step that puts a new Worker in the active map leaves more
\* than max_parallel Workers active; the count exceeds the bound only after
\* set_settings lowered it under Workers that were already running.
C1_AdmissionRespectsBound ==
    [][Cardinality(workers') > max_parallel' => workers' \subseteq workers]_vars

C1_Witness == Active = max_parallel /\ job_queue # <<>> /\ Active = 2

\* C2: an enqueue of N jobs on an idle orchestrator with bound k < N emits
\* exactly k worker-started signals; every worker-started signal emitted
\* outside enqueue is emitted by a completion handler, after that handler's
\* re-emitted completion signal.
C2_StartsWaitForCompletion ==
    [][LET N == submitted' - submitted
       IN  /\ (N > max_parallel /\ workers = {} /\ job_queue = <<>>)
                 => StartedCount(NewEvents) = max_parallel
           /\ (N = 0 /\ StartedCount(NewEvents) > 0)
                 => /\ IsDone(NewEvents[1])
                    /\ mainQueue # <<>>
                    /\ NewEvents[1][2] = Head(mainQueue)]_vars

C2_Witness ==
    /\ max_parallel = 2
    /\ submitted = 3
    /\ Len(emitted) = 4
    /\ IsStarted(emitted[1]) /\ IsStarted(emitted[2])
    /\ IsDone(emitted[3])
    /\ emitted[4] = <<"started", 3, 3>>

\* C3: worker-started signals appear in submission order of their jobs and
\* with increasing worker ids, whatever the order of completions.
C3_AdmissionIsFifo ==
    \A i, j \in 1..Len(emitted) :
        (i < j /\ IsStarted(emitted[i]) /\ IsStarted(emitted[j]))
            => /\ emitted[i][3] < emitted[j][3]
               /\ emitted[i][2] < emitted[j][2]

\* Two enqueue calls, three admissions, and Worker 2 completing before
\* Worker 1.
C3_Witness ==
    /\ StartedCount(emitted) = 3
    /\ \E i, j \in 1..Len(emitted) :
          /\ i < j
          /\ emitted[i] = <<"done", 2, 2>>
          /\ emitted[j] = <<"done", 1, 1>>


\* ========================================================= claims, Part II
DoneAt(evs) == {i \in 1..Len(evs) : IsDoneEv(evs[i])}

ProgressAt(evs) == {i \in 1..Len(evs) : IsProgress(evs[i])}

\* The run has come to its verdict with return_code 0 (the exit code of the
\* last encoder process it ran).
EndedWithZero == pc = "end" /\ loc.return_code = 0

\* The message the spec derives from the diagnostic output: the last line
\* with "error"/"failed", else the tail.
FromDiagnostics(data) ==
    IF \E i \in 1..Len(data) : HasError(data[i])
    THEN Text(LastError(data))
    ELSE Text(data[Len(data)])

\* C4: a run that has ended has emitted exactly one completion event, and a
\* run that has not ended has emitted none.
C4_ExactlyOneCompletion ==
    /\ Cardinality(DoneAt(events)) <= 1
    /\ pc = "end" <=> Cardinality(DoneAt(events)) = 1

C4_Witness ==
    /\ pc = "end"
    /\ loc.return_code = 0
    /\ job.two_pass
    /\ events[Len(events)] = Done(FALSE, "Error: speed_str", NoPath)

\* C5 as stated: the completion event is the last event the Worker emits;
\* nothing, from run() or from read_stderr, follows it.
C5_CompletionIsLast ==
    \A i \in DoneAt(events) : i = Len(events)

\* C6 as stated: the progress percentages the Worker emits never decrease,
\* and none reaches 100 before the final completion step.
C6_ProgressMonotone ==
    /\ \A i, j \in ProgressAt(events) : i < j => events[i][2] <= events[j][2]
    /\ \A i \in ProgressAt(events) :
          events[i][2] >= FullProgress => pc \in {"tail", "end"}

\* C7 as stated: when the last encoder process has exited with code 0 and
\* the destination file is there with at least the minimum size, the
\* completion event is a success carrying the destination path (whatever
\* became of the deletion of the source).
C7_SuccessReported ==
    (EndedWithZero /\ Exists(fs.out[loc.dst])
                   /\ SizeOf(fs.out[loc.dst]) >= MinOutputSize)
        => \E i \in DoneAt(events) :
              events[i][2] = TRUE /\ events[i][4] = Path(loc.dst)

\* C8 as stated: when the encoder has exited with code 0 and the destination
\* file is missing or under the minimum size, the completion event is a
\* failure whose message says so.
C8_BadOutputReported ==
    (EndedWithZero /\ (~Exists(fs.out[loc.dst])
                       \/ SizeOf(fs.out[loc.dst]) < MinOutputSize))
        => \E i \in DoneAt(events) :
              /\ events[i][2] = FALSE
              /\ events[i][3] \in {"output file not found", "Output file is too small"}

\* C9 as stated: when the encoder has exited by itself with a non-zero code
\* after writing diagnostic lines, the completion event is a failure whose
\* message is the last "error"/"failed" line of that output, else its tail.
C9_MessageFromDiagnostics ==
    (/\ pc = "end"
     /\ proc.state = "exited" /\ ~proc.signalled
     /\ proc.rc # 0 /\ loc.return_code = proc.rc
     /\ written # <<>>)
        => \E i \in DoneAt(events) :
              events[i][2] = FALSE /\ events[i][3] = FromDiagnostics(written)

\* C10 as stated: a run that was stopped while it was blocked in a pause
\* wait ends with no encoder process left running and with the completion
\* event "Stopped by user".
C10_StoppedWhilePaused ==
    (pc = "end" /\ stop_at # "none")
        => /\ proc.state # "running" /\ proc2.state # "running"
           /\ \E i \in DoneAt(events) :
                 events[i] = Done(FALSE, "Stopped by user", NoPath)

\* No caller has paused or stopped the Worker.
NoCaller == ~paused /\ ~stopped

\* C11 as stated: with no stop requested (and no pause holding the thread),
\* an encoder process does not keep running for ever: it exits, or the
\* Worker kills it when the hour has passed and reports the timeout.
C11_HungEncoderIsKilled ==
    []NoCaller => ~<>[](proc.state = "running")

\* The jobs handed to enqueue that are neither pending nor were ever started.
Discarded(q, evs) ==
    {j \in 1..submitted :
        /\ \A i \in 1..Len(q) : q[i] # j
        /\ \A i \in 1..Len(evs) : IsStarted(evs[i]) => evs[i][3] # j}

\* C12: stop_all leaves the active map and the pending list empty and the
\* thread of every Worker that was active finished; the jobs that were
\* pending are discarded, and a discarded job is never started afterwards.
C12_StopAllDiscardsPending ==
    [][/\ (\E res \in [Unfinished -> BOOLEAN] : stop_all(res)) =>
            /\ workers' = {} /\ job_queue' = <<>>
            /\ \A w \in workers : wthread'[w] = "finished"
            /\ \A i \in 1..Len(job_queue) :
                  job_queue[i] \in Discarded(job_queue', emitted')
       /\ Discarded(job_queue, emitted) \subseteq Discarded(job_queue', emitted')]_vars

\* Three jobs were submitted, one was started and its completion has been
\* relayed, the other two were discarded, and a later completion handler has
\* run with nothing pending.
C12_Witness ==
    /\ submitted = 3
    /\ emitted = <<<<"started", 1, 1>>, <<"done", 1, 1>>>>
    /\ Discarded(job_queue, emitted) = {2, 3}
    /\ workers = {} /\ mainQueue = <<>>

\* C13: when a completion handler or an enqueue has run, the pending list
\* is empty or the active map holds at least max_parallel Workers: the freed
\* slot is refilled within that step.
C13_SlotRefilledAtOnce ==
    [][(on_worker_done \/ \E n \in 1..MaxBatch : enqueue([i \in 1..n |-> PlainJob]))
          => (job_queue' = <<>> \/ Cardinality(workers') >= max_parallel')]_vars

\* With room for one, job 2 was started by the handler of job 1's
\* completion while job 3 still waits.
C13_Witness ==
    /\ max_parallel = 1
    /\ emitted = <<<<"started", 1, 1>>, <<"done", 1, 1>>, <<"started", 2, 2>>>>
    /\ job_queue = <<3>>
    /\ workers = {2}

\* The encoder processes the Worker has spawned.
Invocations ==
    (IF proc.state = "none" THEN 0 ELSE 1) + (IF proc2.state = "none" THEN 0 ELSE 1)

\* C14 as stated: the run of a two-pass job that got as far as spawning its
\* first pass ends with exactly two encoder processes spawned.
C14_TwoInvocations ==
    (pc = "end" /\ job.two_pass /\ proc.state # "none") => Invocations = 2

\* C15 as stated: once the Worker of a two-pass job has emitted its
\* completion event, no pass-log file is left.
C15_NoPassLogLeft ==
    (pc = "end" /\ job.two_pass) => fs.logs = {}

\* C17 as stated: no step taken while the pause flag is set and no stop is
\* requested emits a completion event, and once a completion event has been
\* emitted it stays the only one, whatever is called afterwards.
C17_CompletesOnlyFromRunning ==
    [][/\ (Blocked /\ Blocked') => DoneAt(events') = DoneAt(events)
       /\ \A i \in DoneAt(events) :
              DoneAt(events') = {i} /\ events'[i] = events[i]]_vars

\* C18: the step with which a Worker whose stop flag is set leaves the
\* start of run() (stopped before the thread ran, or while it waited paused
\* there) emits "Stopped by user" and ends the run, with no encoder process
\* spawned and no file touched.
C18_StoppedBeforeStart ==
    [][(pc = "start" /\ stopped /\ pc' # "start")
          => /\ pc' = "end"
             /\ events' = Append(events, Done(FALSE, "Stopped by user", NoPath))
             /\ proc'.state = "none" /\ proc2'.state = "none"
             /\ fs' = fs]_vars

\* The Worker was stopped while it waited paused before starting, and has
\* ended; the source file was not there.
C18_Witness ==
    /\ pc = "end"
    /\ stop_at = "start"
    /\ ~fs.src
    /\ events = <<Done(FALSE, "Stopped by user", NoPath)>>
    /\ Invocations = 0

\* C19: with policy skip, the step with which a Worker that is not stopped
\* and has its source leaves the start of run() when the computed destination
\* exists emits a success with the skip message and that path and ends the
\* run, with no encoder process spawned and the files as they were.
C19_SkipExisting ==
    [][(/\ pc = "start" /\ pc' # "start"
        /\ ~stopped /\ fs.src
        /\ on_exists = "skip" /\ Exists(fs.out[0]))
          => /\ pc' = "end"
             /\ events' = Append(events, Done(TRUE, "Skipped (file exists)", Path(0)))
             /\ proc'.state = "none" /\ proc2'.state = "none"
             /\ fs' = fs]_vars

C19_Witness ==
    /\ pc = "end"
    /\ on_exists = "skip"
    /\ fs.out[0] = "ok" /\ fs.src
    /\ events = <<Done(TRUE, "Skipped (file exists)", Path(0))>>
    /\ proc.state = "none"

\* ======================================================== claims, Part III
\* C16 as stated: two Workers whose encoders are running at the same time
\* were spawned with different destination paths.
C16_DestinationsDiffer ==
    \A v, w \in Pair :
        (v # w /\ ppc[v] = "encoding" /\ ppc[w] = "encoding")
            => <<pjob[v], pdst[v]>> # <<pjob[w], pdst[w]>>

\* C20: with policy rename, when "base.ext" exists the destination a Worker
\* resolves is "base (n).ext" for the smallest n >= 1 that does not exist;
\* the resolved path never names a file that exists at that moment.
C20_RenameTakesFirstFree ==
    [][\A w \in Pair :
          (ppc[w] = "start" /\ ppc'[w] # "start" /\ on_exists = "rename")
             => LET out == disk[pjob[w]]
                    n   == pdst'[w]
                IN  /\ n \in Cands
                    /\ ~Exists(out[n])
                    /\ Exists(out[0]) =>
                          /\ n >= 1
                          /\ \A m \in 1..(n - 1) : Exists(out[m])]_vars

\* "base.ext" and "base (1).ext" were there and a Worker resolved
\* "base (2).ext".
C20_Witness ==
    \E w \in Pair :
        /\ on_exists = "rename"
        /\ ppc[w] = "resolved" /\ pdst[w] = 2
        /\ disk[pjob[w]][0] = "ok" /\ disk[pjob[w]][1] = "ok"
        /\ disk[pjob[w]][2] = "absent"


\* ========================================================= claims, Part IV
\* The base name of src: its longest suffix without a "/".
ClaimBase(src) ==
    CHOOSE b \in {SubSeq(src, i, Len(src)) : i \in 1..(Len(src) + 1)} :
        /\ \A i \in DOMAIN b : b[i] # "/"
        /\ Len(b) = Len(src) \/ src[Len(src) - Len(b)] = "/"

\* A name without its extension: the extension starts at the name's last
\* ".", and a name made of leading "."s only has none.
ClaimStem(b) ==
    CHOOSE n \in {SubSeq(b, 1, i) : i \in 0..Len(b)} :
        LET e == SubSeq(b, Len(n) + 1, Len(b))
            IsExt(x, m) == /\ x # <<>> /\ x[1] = "."
                           /\ \A i \in 2..Len(x) : x[i] # "."
                           /\ \E i \in DOMAIN m : m[i] # "."
        IN  /\ e = <<>> \/ IsExt(e, n)
            /\ e = <<>> => ~\E i \in 1..Len(b) :
                              IsExt(SubSeq(b, i, Len(b)), SubSeq(b, 1, i - 1))

\* The directory with the separator that joins it to a name.
ClaimDir(d) == IF d[Len(d)] = "/" THEN d ELSE d \o <<"/">>

\* C21, as stated: the destination path is the destination directory joined
\* with the source's base name without its extension plus the extension
\* looked up from the format, a format missing from the table giving "."
\* followed by the format literal.  (The table's entry for a key is "."
\* followed by the key, so either way it is "." followed by the format as
\* it is written.)
C21_LookupByLiteral ==
    ret.state = "returned" =>
        ret.value = ClaimDir(expanduser(call.dst_dir))
                    \o ClaimStem(ClaimBase(call.src))
                    \o <<".">> \o call.fmt

\* C21, amended: whenever out_path returns, the path is the destination
\* directory joined with the source's base name without its extension plus
\* an extension: the table's entry for the lower-cased format, and "."
\* followed by the format as given when the lower-cased format has no entry.
C21_DestinationPath ==
    ret.state = "returned" =>
        ret.value = ClaimDir(expanduser(call.dst_dir))
                    \o ClaimStem(ClaimBase(call.src))
                    \o (IF \E k \in ext_keys : k = lower(call.fmt)
                        THEN <<".">> \o lower(call.fmt)
                        ELSE <<".">> \o call.fmt)

\* out_path has returned for a format written in capitals that the table
\* knows in lower case, and for a source with a directory and an extension.
C21_Witness ==
    /\ ret.state = "returned"
    /\ call.fmt = <<"M", "P", "3">>
    /\ call.src = <<"/", "m", "/", "a", ".", "m">>
    /\ call.dst_dir = <<"~", "/", "o">>


\* ================================================ claims, Part I (continued)
\* The Workers built so far.
Built == {w \in Wids : wjob[w] # 0}

C23_IdsNeverReused ==
    [][/\ \A i, j \in DOMAIN emitted' :
             (i < j /\ IsStarted(emitted'[i]) /\ IsStarted(emitted'[j]))
                 => emitted'[i][2] < emitted'[j][2]
       /\ \A i \in DOMAIN emitted' :
             IsStarted(emitted'[i]) => emitted'[i][2] < next_wid'
       /\ \A w \in workers' : w < next_wid'
       /\ next_wid' >= next_wid]_vars

\* Workers 1 and 2 were stopped by stop_all, their completions are still
\* queued, and the job enqueued afterwards runs in Worker 3.
C23_Witness ==
    /\ Len(mainQueue) = 2
    /\ workers = {3}
    /\ next_wid = 4
    /\ emitted = <<<<"started", 1, 1>>, <<"started", 2, 2>>, <<"started", 3, 3>>>>


\* The jobs admitted by the step: those of its sig_worker_started events.
AdmittedNow == {NewEvents[i][3] : i \in {k \in DOMAIN NewEvents : IsStarted(NewEvents[k])}}

\* C24: no step changes a field of a submitted Job other than threads, and
\* threads changes only in the step that admits the Job, which sets it to the
\* entry of settings["codec_threads"] for the Job's format, 1 when there is
\* none, whatever the caller had put there; a Job not admitted yet is as the
\* caller made it.
C24_OnlyThreadsIsSet ==
    [][/\ \A j \in DOMAIN jobs :
             /\ jobs'[j].src = jobs[j].src
             /\ jobs'[j].format = jobs[j].format
             /\ j \notin AdmittedNow => jobs'[j].threads = jobs[j].threads
       /\ \A j \in AdmittedNow :
             jobs'[j].threads =
                 IF jobs'[j].format \in DOMAIN settings.codec_threads
                 THEN settings.codec_threads[jobs'[j].format]
                 ELSE 1
       /\ \A j \in DOMAIN jobs' :
             (\A w \in Wids : wjob'[w] # j) => jobs'[j] \in JobsTried]_vars

\* With four threads set for "mp3": an "mp3" Job was admitted and has 4, an
\* "mkv" Job was admitted and has 1, and a third Job waits with the caller's 8.
C24_Witness ==
    /\ Len(jobs) = 3
    /\ jobs[1].format = "mp3" /\ jobs[1].threads = 4
    /\ jobs[2].format = "mkv" /\ jobs[2].threads = 1
    /\ jobs[3].threads = 8
    /\ job_queue = <<3>>


\* C25: pause_worker, resume_worker and stop_worker with an id that is not
\* in the active map (not assigned yet, completed and handled, or cleared by
\* stop_all) change nothing: not the pending list, the active map, the id
\* counter, the flags of any Worker, the queued completions or the signals
\* emitted.
C25_UnknownIdIsNoOp ==
    [][\A wid \in Wids \ workers :
          (pause_worker(wid) \/ resume_worker(wid) \/ stop_worker(wid))
             => UNCHANGED <<job_queue, workers, next_wid, w_paused, w_stopped,
                            wthread, mainQueue, emitted, max_parallel, wjob>>]_vars

\* Worker 1 has completed and left the active map, Worker 2 is active and
\* paused, id 3 has not been assigned, and a job is pending: ids 1 and 3 are
\* unknown here.
C25_Witness ==
    /\ workers = {2}
    /\ w_paused[2] /\ ~w_stopped[2]
    /\ emitted = <<<<"started", 1, 1>>, <<"done", 1, 1>>, <<"started", 2, 2>>>>
    /\ next_wid = 3
    /\ job_queue = <<3>>


\* ========================================================== claims, Part V
\* The destination of the i-th run_ffmpeg call: the null device for the
\* first pass of a two-pass Job, the Job's destination path otherwise.
DestinationOf(i) ==
    IF i = 1 /\ TwoPassJob(cjob[1]) THEN NullSink(cjob[1].windows) ELSE DstOf(cjob[1])

\* C26: every argument vector handed to run_ffmpeg, the one build_ffmpeg_cmd
\* returned and the one made for the second pass, ends with "-y" followed by
\* its destination path as the last argument.
C26_EndsWithDestination ==
    \A i \in DOMAIN spawned[1] :
        LET v == spawned[1][i].cmd
        IN  /\ Len(v) >= 2
            /\ v[Len(v) - 1] = "-y"
            /\ v[Len(v)] = DestinationOf(i)

PassOf(v) == IF Index(v, "-pass") = 0 THEN "none" ELSE v[Index(v, "-pass") + 1]

\* C28: for a two-pass Job the first vector handed to run_ffmpeg asks for
\* pass 1 and ends with the platform's null device; a second vector is
\* handed over only when the first process has exited with code 0, and asks
\* for pass 2 and ends with the Job's destination path; at most one of the
\* Worker's processes has not exited.
C28_TwoPassProtocol ==
    LET runs == spawned[1]
    IN  TwoPassJob(cjob[1]) =>
            /\ Len(runs) >= 1 =>
                  /\ PassOf(runs[1].cmd) = "1"
                  /\ runs[1].cmd[Len(runs[1].cmd)] = NullSink(cjob[1].windows)
            /\ Len(runs) >= 2 =>
                  /\ runs[1].rc = 0
                  /\ PassOf(runs[2].cmd) = "2"
                  /\ runs[2].cmd[Len(runs[2].cmd)] = DstOf(cjob[1])
            /\ Cardinality({i \in DOMAIN runs : runs[i].rc = -1}) <= 1

\* The pass-log path an argument vector names: the argument after
\* "-passlogfile", "none" without one.
PassLogOf(v) ==
    IF Index(v, "-passlogfile") = 0 THEN "none" ELSE v[Index(v, "-passlogfile") + 1]

\* C29: while two two-pass Workers are both active, having both spawned an
\* encoder and neither having ended, no vector handed to the encoder of one
\* names the pass-log path that a vector handed to the encoder of the other
\* names.
C29_DistinctPassLogs ==
    \A w1, w2 \in DOMAIN cjob :
        (/\ w1 # w2
         /\ TwoPassJob(cjob[w1]) /\ TwoPassJob(cjob[w2])
         /\ cpc[w1] \notin {"start", "end"} /\ cpc[w2] \notin {"start", "end"})
        => \A i \in DOMAIN spawned[w1], k \in DOMAIN spawned[w2] :
              PassLogOf(spawned[w1][i].cmd) # PassLogOf(spawned[w2][k].cmd)

\* ============================================ claims, Part II (the stop)
\* C30: once the stop flag of a Worker whose run() has not ended is set, the
\* run ends with a completion event emitted: from the pause waits and from
\* the loops of either pass, given that a terminated encoder process exits.
C30_StoppedWorkerEnds ==
    (stopped /\ pc # "end") ~> (pc = "end" /\ DoneAt(events) # {})

\* The Worker was stopped while it waited paused in the loop of the second
\* pass, and has ended with its completion event.
C30_Witness ==
    /\ stop_at = "pass2"
    /\ stopped /\ pc = "end"
    /\ proc2.signalled
    /\ IsDoneEv(events[Len(events)])

\* ==================================================== claims, the heartbeat
\* The heartbeats among the events: progress events of the nominal 0.1 percent.
HeartbeatsAt(evs) == {i \in ProgressAt(evs) : evs[i][2] = HeartbeatPct}

\* C31: a heartbeat is emitted only when no parsed progress has been emitted
\* in the five seconds before it: no progress event of a higher percentage
\* lies between the previous heartbeat (or the start of the run) and it.
C31_HeartbeatOnlyWhenQuiet ==
    \A i \in HeartbeatsAt(events) :
        ~\E j \in ProgressAt(events) :
              /\ j < i
              /\ events[j][2] > HeartbeatPct
              /\ ~\E h \in HeartbeatsAt(events) : j < h /\ h < i

\* ============================================== claims, the progress reader
\* The log events of position lines ("time=..."), in the order they were read.
StatusAt(evs) == {i \in 1..Len(evs) : evs[i] = Log("status")}

\* C32: the duration is that of the first duration-bearing line written and
\* stays so; every position line read after the duration was detected is
\* followed by one progress event of min(99, 100 * position / duration)
\* percent (the n-th position line stands at 5n seconds), and no parsed
\* percentage is above 99.
C32_EveryPositionLineReports ==
    /\ duration_seconds # 0 =>
          \E d \in 1..Len(written) :
              /\ written[d] = DurLine(duration_seconds)
              /\ \A c \in 1..(d - 1) : written[c].k # "dur"
    /\ \A i \in StatusAt(events) :
          (\E d \in 1..(i - 1) : events[d] = Log("Detected duration"))
          => LET n == Cardinality({k \in StatusAt(events) : k <= i})
                 pct == (5 * n * FullProgress) \div duration_seconds
             IN  /\ i < Len(events)
                 /\ events[i + 1] = Progress(IF pct < ProgressCap THEN pct ELSE ProgressCap)
    /\ \A i \in ProgressAt(events) :
          (i > 1 /\ events[i - 1] = Log("status")) => events[i][2] <= ProgressCap

\* ================================================== claims, the video branch
\* The first vector handed to run_ffmpeg, and how often and with what value
\* an option occurs in it.
FirstCmd == spawned[1][1].cmd

CountOf(v, x) == Cardinality({i \in DOMAIN v : v[i] = x})

ValuesOf(v, x) == {v[i + 1] : i \in {k \in DOMAIN v : v[k] = x /\ k < Len(v)}}

\* A Job that is converted from video to video.
VideoToVideo(j) ==
    /\ is_video_file(j.src) /\ is_video_file(DstOf(j)) /\ ~j.extract_audio_only

\* C33: for a video Job without size reduction whose quality preset is one
\* of the named ones and whose codec is x264 or x265, the vector has exactly
\* one "-crf" and exactly one "-preset", with the preset's pair of values,
\* whatever explicit quality or bitrate the Job carries.
C33_PresetPairOnce ==
    (/\ spawned[1] # <<>>
     /\ VideoToVideo(cjob[1]) /\ ~cjob[1].reduce_size
     /\ cjob[1].video_quality_preset \in {"high", "LOW"}
     /\ ValuesOf(FirstCmd, "-c:v") \subseteq {"libx264", "libx265"})
    => LET pair == IF cjob[1].video_quality_preset = "high"
                   THEN <<"23", "slow">> ELSE <<"32", "fast">>
       IN  /\ CountOf(FirstCmd, "-crf") = 1
           /\ CountOf(FirstCmd, "-preset") = 1
           /\ ValuesOf(FirstCmd, "-crf") = {pair[1]}
           /\ ValuesOf(FirstCmd, "-preset") = {pair[2]}

\* The per-format default video codec, for the formats of the Jobs tried.
DefaultCodec(fmt) == IF fmt = "webm" THEN "libvpx-vp9" ELSE "libx264"

\* C34: for a video-to-video Job the codec in the vector is the HEVC encoder
\* when size reduction with HEVC is asked for and the format supports it;
\* otherwise the explicit override when there is one; otherwise the
\* format's default.
C34_CodecChoice ==
    (spawned[1] # <<>> /\ VideoToVideo(cjob[1]))
    => LET j == cjob[1]
       IN  ValuesOf(FirstCmd, "-c:v") =
              { IF j.reduce_size /\ j.use_hevc /\ j.fmt \in {"mp4", "mkv", "m4v"}
                THEN "libx265"
                ELSE IF j.video_codec # "" THEN j.video_codec
                ELSE DefaultCodec(j.fmt) }

\* ============================================ claims, the source's deletion
\* C35: a step removes the source file only at the end of a run whose last
\* process returned 0 and whose destination exists with at least the minimum
\* size, for a Job that asks for it (the completion says so); a run that
\* ends with a failure or with the skip leaves the source as it was.
C35_SourceRemovedOnlyAfterSuccess ==
    [][/\ (fs'.src # fs.src)
          => /\ pc = "tail" /\ pc' = "end"
             /\ loc.return_code = 0
             /\ Exists(fs.out[loc.dst])
             /\ SizeOf(fs.out[loc.dst]) >= MinOutputSize
             /\ events'[Len(events')] =
                    Done(TRUE, "Conversion completed, original file deleted", Path(loc.dst))
       /\ (/\ pc # "end" /\ pc' = "end"
           /\ \/ ~events'[Len(events')][2]
              \/ events'[Len(events')][3] = "Skipped (file exists)")
          => fs'.src = fs.src]_vars

\* A run has ended on the failure path, the encoder having returned 1 and
\* left a partial file; the source is still there.
C35_Witness ==
    /\ pc = "end"
    /\ proc.state = "exited" /\ proc.rc = 1
    /\ loc.return_code = 1
    /\ fs.out[loc.dst] = "small"
    /\ fs.src
    /\ events[Len(events)] = Done(FALSE, "Conversion failed with exit code", NoPath)

\* ============================================== claims, stop and the spawns
\* C36: once the stop flag of the Worker is set, no step starts an encoder
\* process: neither the first process nor the process of the second pass.
C36_NoSpawnAfterStop ==
    [][stopped => /\ (proc'.state = "running" => proc.state = "running")
                  /\ (proc2'.state = "running" => proc2.state = "running")]_vars

\* ================================================ claims, the queue drains
\* Job j has been admitted: a Worker was started for it.
Admitted(j) == \E i \in DOMAIN emitted : emitted[i][1] = "started" /\ emitted[i][3] = j

\* Job j's completion has been relayed by the Orchestrator.
Relayed(j) == \E i \in DOMAIN emitted : emitted[i][1] = "done" /\ emitted[i][3] = j

EventsOf(w) == {i \in DOMAIN emitted : emitted[i][2] = w}

\* C38: for every Worker id that has been assigned or that an event carries,
\* exactly one worker-started event has been emitted, and it comes before
\* every progress, log and completion event with that id.
C38_StartedOnceAndFirst ==
    \A w \in Wids :
        (w < next_wid \/ EventsOf(w) # {})
        => \E s \in EventsOf(w) :
              /\ emitted[s][1] = "started"
              /\ \A i \in EventsOf(w) \ {s} :
                    /\ emitted[i][1] \in {"progress", "log", "done"}
                    /\ s < i

\* Worker 2, admitted after Worker 1 (which logged a line) had completed,
\* has reported progress and has had its completion relayed.
C38_Witness ==
    /\ \E s, p, d \in EventsOf(2) :
          /\ emitted[s][1] = "started" /\ emitted[p][1] = "progress"
          /\ emitted[d][1] = "done"
          /\ s < p /\ p < d
    /\ \E l \in EventsOf(1) : emitted[l][1] = "log"
    /\ \E d1, s2 \in DOMAIN emitted :
          /\ emitted[d1] = <<"done", 1, 1>> /\ emitted[s2][1] = "started"
          /\ emitted[s2][2] = 2 /\ d1 < s2

\* C39: the stop flag of a Worker, once set, stays set whatever is called on
\* the Worker afterwards (pause, resume, stop again) and whatever its thread
\* does, and from then on the condition of the pause wait, paused and not
\* stopped, is never true again, so the thread cannot block in a pause wait.
C39_StopFlagSticks == [][stopped => (stopped' /\ ~Blocked')]_vars

\* A Worker stopped while it was blocked in a pause wait, paused again after
\* the stop, whose run() went on to its end with the pause flag still set.
C39_Witness ==
    /\ stopped /\ paused
    /\ stop_at # "none"
    /\ pc = "end"

\* What a pause or resume call that targets the Workers ws may change: the
\* pause flags of those Workers, and nothing else of the Orchestrator, of
\* the Workers or of the encoder processes.
OnlyPauseFlagsOf(ws) ==
    /\ \A v \in Wids \ ws : w_paused'[v] = w_paused[v]
    /\ UNCHANGED <<w_stopped, job_queue, workers, next_wid, wthread>>
    /\ UNCHANGED <<proc, proc2>>

\* C40: pause_worker and resume_worker change at most the pause flag of the
\* Worker with the given id, and only when it is active; pause_all and
\* resume_all change at most the pause flags of the active Workers.  None of
\* them changes a stop flag, the pending list, the active map, the id counter
\* or the state of an encoder process (running, signalled, exited), and
\* while a Worker is blocked in a pause wait its running encoder can still
\* write and exit.
C40_PauseChangesOnlyPauseFlags ==
    [][/\ \A wid \in Wids :
             (CallPauseWorker(wid) \/ CallResumeWorker(wid))
             => OnlyPauseFlagsOf({wid} \cap workers)
       /\ (CallPauseAll \/ CallResumeAll) => OnlyPauseFlagsOf(workers)
       /\ (Blocked /\ proc.state = "running")
          => ENABLED (\E rc \in {0, 1}, f \in {"absent", "small", "ok"},
                         logged \in BOOLEAN : EncoderExit(rc, f, logged))
      ]_vars

\* Worker 1 is blocked in the pause wait of the monitoring loop, paused by
\* pause_all together with Worker 2, neither is stopped, and the encoder of
\* Worker 1 has written a line and exited with 0 by itself.
C40_Witness ==
    /\ pc = "mon_wait" /\ Blocked
    /\ w_paused[2] /\ ~w_stopped[2]
    /\ proc.state = "exited" /\ proc.rc = 0 /\ ~proc.signalled
    /\ written # <<>>

=============================================================================
